---- MODULE Spec2Model ----
(***************************************************************************)
(* Order lifecycle, take protocol, expiry sweeper and balance ledger of    *)
(* the srochno backend, as a state machine over one transactional store.   *)
(*                                                                         *)
(* The store is PostgreSQL at READ COMMITTED: a statement reads what is    *)
(* committed when it runs, SELECT ... FOR UPDATE and UPDATE take the row   *)
(* lock and wait for it, writes become visible at COMMIT.  Every request   *)
(* and every sweep pass owns one ORM session: an object is loaded into the *)
(* session's identity map the first time a query returns its row and is    *)
(* NOT overwritten by later queries of the same session (no                *)
(* populate_existing), attribute assignments are kept in the session and   *)
(* written as UPDATE ... SET <changed columns> = <values held in the       *)
(* session> at the next flush (before every query, and at commit).         *)
(***************************************************************************)
EXTENDS Integers, Sequences, FiniteSets, TLC

\* ---------------------------------------------------------------- bounds
NumUsers == 5
NumOrders == 2
NumContacts == 2
NumInvoices == 1
NumProcs == 2
MaxReqs == 3
MaxLifeReqs == 2
MaxPayReqs == 5
MaxSeqReqs == 4
MaxViewReqs == 1
MaxSweepReqs == 2
MaxNotifyReqs == 2
MaxLiveReqs == 2
MaxPatchReqs == 2
NumCategories == 2
NumCities == 2
MaxTicks == 2
TickMinutes == 30
MaxAmount == 2

\* ------------------------------------------------------ program constants
order_lifetime_minutes == 60
no_response_close_minutes == 15
max_executors_per_order == 3
order_take_cost == 2
notification_frequency_minutes == 10

Users == 1..NumUsers
Orders == 1..NumOrders
Contacts == 1..NumContacts
Invoices == 1..NumInvoices
Categories == 1..NumCategories
Cities == 1..NumCities
Procs == 1..NumProcs
Sweeper == 0
Sessions == {Sweeper} \cup Procs
Free == -1
NoTime == -1
NoRow == [absent |-> TRUE]

Rows == ({"user"} \X Users) \cup ({"order"} \X Orders) \cup ({"invoice"} \X Invoices)

ACTIVE == "active"
EXPIRED == "expired"
DELETED == "deleted"
CLOSED_NO_RESPONSE == "closed_no_response"
COMPLETED == "completed"
OrderStatus == {ACTIVE, EXPIRED, DELETED, CLOSED_NO_RESPONSE, COMPLETED}
Terminal == OrderStatus \ {ACTIVE}

RECHARGE == "recharge"
ORDER_TAKE == "order_take"
REFUND == "refund"

PENDING == "pending"
PAID == "paid"
INVOICE_EXPIRED == "expired"

VARIABLES
    now,        \* wall clock, minutes
    users,      \* committed users rows
    orders,     \* committed orders rows (NoRow: no such id)
    takes,      \* committed executor_takes rows
    txns,       \* committed balance_transactions rows, in id order
    invoices,   \* committed payment_invoices rows (NoRow: no such external id)
    lock,       \* row -> session holding its row lock, or Free
    pc,         \* session -> position in its handler
    req,        \* session -> the request it serves
    sess,       \* session -> ORM session state
    out,        \* session -> outcome of its last finished request
    nreq        \* requests started so far

vars == <<now, users, orders, takes, txns, invoices, lock, pc, req, sess, out, nreq>>
db == <<users, orders, takes, txns, invoices>>

\* ------------------------------------------------------------- helpers
Max(a, b) == IF a >= b THEN a ELSE b

RECURSIVE SetToSeq(_)
SetToSeq(S) ==
    IF S = {} THEN <<>>
    ELSE LET m == CHOOSE x \in S : \A y \in S : x <= y
         IN <<m>> \o SetToSeq(S \ {m})

MinOf(S) == CHOOSE x \in S : \A y \in S : x <= y

RECURSIVE SumSeq(_, _)
SumSeq(s, u) ==
    IF s = <<>> THEN 0
    ELSE (IF Head(s).user_id = u THEN Head(s).amount ELSE 0) + SumSeq(Tail(s), u)

TakesOf(T, o) == {t \in T : t.order_id = o}
TakersOf(T, o) == {t.executor_id : t \in TakesOf(T, o)}

NoReq == [kind |-> "none", user |-> 0, order |-> 0, arg |-> 0]
NoOut == [code |-> 0]

EmptySess ==
    [cache |-> [u \in Users |-> NoRow],      \* identity map: User objects
     cols |-> [u \in Users |-> {}],          \* their modified columns
     ord |-> [o \in Orders |-> NoRow],       \* identity map: Order objects
     ocols |-> [o \in Orders |-> {}],        \* their modified columns
     tk |-> {},                              \* loaded executor_takes
     dirty |-> {},                           \* rows modified and not yet flushed
     prog |-> <<>>,                          \* User loads the handler still has to run
     newTxns |-> <<>>,                       \* pending BalanceTransaction inserts
     ret |-> [code |-> 0]]                   \* what the handler returns once committed

\* ----------------------------------------------------------- row locks
CanLock(s, R) == \A r \in R : lock[r] \in {Free, s}
Acquire(s, R) == [r \in Rows |-> IF r \in R THEN s ELSE lock[r]]
Release(s) == [r \in Rows |-> IF lock[r] = s THEN Free ELSE lock[r]]

\* OrderService.is_expired
is_expiredStrictly(order, t) == t > order.created_at + order_lifetime_minutes
is_expired(order, t) == t >= order.created_at + order_lifetime_minutes

\* ------------------------------------------------- unit of work: commit
\* UPDATE users SET <modified columns> = <session values>
CommitUsers(S) ==
    [u \in Users |->
        IF S.cols[u] = {} THEN users[u]
        ELSE [users[u] EXCEPT
                !.balance = IF "balance" \in S.cols[u] THEN S.cache[u].balance ELSE @,
                !.active = IF "active" \in S.cols[u] THEN S.cache[u].active ELSE @,
                !.completed = IF "completed" \in S.cols[u] THEN S.cache[u].completed ELSE @,
                !.last_notified_at = IF "last_notified_at" \in S.cols[u]
                                     THEN S.cache[u].last_notified_at ELSE @]]

\* UPDATE orders SET <modified columns> = <session values> WHERE id = o
CommitOrders(S) ==
    [o \in Orders |->
        IF S.ocols[o] = {} \/ orders[o] = NoRow THEN orders[o]
        ELSE [orders[o] EXCEPT
                !.status = IF "status" \in S.ocols[o] THEN S.ord[o].status ELSE @,
                !.contact = IF "contact" \in S.ocols[o] THEN S.ord[o].contact ELSE @,
                !.category = IF "category" \in S.ocols[o] THEN S.ord[o].category ELSE @,
                !.description =
                    IF "description" \in S.ocols[o] THEN S.ord[o].description ELSE @,
                !.customer_responded_at =
                    IF "customer_responded_at" \in S.ocols[o]
                    THEN S.ord[o].customer_responded_at ELSE @]]

\* the request ends: the session is closed, its locks are released
Finish(s, result) ==
    /\ pc' = [pc EXCEPT ![s] = "idle"]
    /\ sess' = [sess EXCEPT ![s] = EmptySess]
    /\ lock' = Release(s)
    /\ out' = [out EXCEPT ![s] = result]

Rollback(s, result) ==
    /\ Finish(s, result)
    /\ UNCHANGED <<now, db, req, nreq>>

\* ------------------------------------------------------------- requests
Start(p, kind, u, o, a, first, cap) ==
    /\ pc[p] = "idle"
    /\ nreq < cap
    /\ nreq' = nreq + 1
    /\ req' = [req EXCEPT ![p] = [kind |-> kind, user |-> u, order |-> o, arg |-> a]]
    /\ pc' = [pc EXCEPT ![p] = first]
    /\ out' = [out EXCEPT ![p] = NoOut]
    /\ UNCHANGED <<now, db, lock, sess>>

\* get_current_user: SELECT the caller's row into the session, no lock
Auth(p) ==
    /\ pc[p] = "auth"
    /\ sess' = [sess EXCEPT ![p].cache[req[p].user] = users[req[p].user]]
    /\ pc' = [pc EXCEPT ![p] = req[p].kind]
    /\ UNCHANGED <<now, db, lock, req, out, nreq>>

Tick ==
    /\ now < MaxTicks * TickMinutes
    /\ now' = now + TickMinutes
    /\ UNCHANGED <<db, lock, pc, req, sess, out, nreq>>

\* ------------------------------------------------------ take_order
StartTakeBy(p, E, O, cap) == \E e \in E, o \in O : Start(p, "take", e, o, 0, "auth", cap)

\* SELECT users ... FOR UPDATE: waits for the row lock; the User object is the
\* one get_current_user loaded, its attributes are not reloaded
TakeLockExecutor(p) ==
    /\ pc[p] = "take"
    /\ CanLock(p, {<<"user", req[p].user>>})
    /\ lock' = Acquire(p, {<<"user", req[p].user>>})
    /\ pc' = [pc EXCEPT ![p] = "take_lock_order"]
    /\ UNCHANGED <<now, db, req, sess, out, nreq>>

TakeTxnUnlinked(e, o, bal) ==
    [user_id |-> e, type |-> ORDER_TAKE, amount |-> -order_take_cost,
     balance_after |-> bal, order_id |-> 0, ext |-> 0]
TakeTxn(e, o, bal) ==
    [user_id |-> e, type |-> ORDER_TAKE, amount |-> -order_take_cost,
     balance_after |-> bal, order_id |-> o, ext |-> 0]

\* the balance check of take_order
Funded(bal) == bal >= order_take_cost

\* the check that the caller is not the order's client
OwnOrderIgnored(order, e) == FALSE
OwnOrder(order, e) == order.client_id = e

\* the check that the caller already holds a take among the order's takes
AlreadyTakenIgnored(T, e) == FALSE
AlreadyTaken(T, e) == \E t \in T : t.executor_id = e

\* the slot check of take_order
SlotsFullOffByOne(n) == n > max_executors_per_order
SlotsFull(n) == n >= max_executors_per_order

\* SELECT orders ... FOR UPDATE with its takes, the checks, the debit and the commit
TakeLockOrder(p) ==
    LET e == req[p].user
        o == req[p].order
        order == orders[o]
        mine == sess[p].cache[e]
        T == TakesOf(takes, o)
    IN
    /\ pc[p] = "take_lock_order"
    /\ IF order = NoRow THEN Rollback(p, [code |-> 404])
       ELSE
       /\ CanLock(p, {<<"order", o>>})
       /\ IF order.status # ACTIVE THEN Rollback(p, [code |-> 410])
          ELSE IF is_expired(order, now) THEN
            \* lazy expiry: status is set, then the client is loaded
            /\ sess' = [sess EXCEPT ![p].ord[o] = order,
                                    ![p].prog = <<[user |-> order.client_id, order |-> o,
                                                   eff |-> "dec", status |-> EXPIRED]>>,
                                    ![p].ret = [code |-> 410]]
            /\ lock' = Acquire(p, {<<"order", o>>})
            /\ pc' = [pc EXCEPT ![p] = "loop"]
            /\ UNCHANGED <<now, db, req, out, nreq>>
          ELSE IF OwnOrder(order, e) THEN Rollback(p, [code |-> 403])
          ELSE IF AlreadyTaken(T, e) THEN
            Rollback(p, [code |-> 200, charged |-> FALSE, contact |-> order.contact,
                         executor_count |-> Cardinality(T), new_balance |-> mine.balance])
          ELSE IF SlotsFull(Cardinality(T)) THEN Rollback(p, [code |-> 409])
          ELSE IF ~Funded(mine.balance) THEN Rollback(p, [code |-> 402])
          ELSE
            /\ users' = [users EXCEPT ![e].balance = mine.balance - order_take_cost,
                                      ![e].active = mine.active + 1]
            /\ takes' = takes \cup {[order_id |-> o, executor_id |-> e, taken_at |-> now]}
            /\ txns' = Append(txns, TakeTxn(e, o, mine.balance - order_take_cost))
            /\ sess' = [sess EXCEPT ![p].cache[e] =
                            [mine EXCEPT !.balance = mine.balance - order_take_cost,
                                         !.active = mine.active + 1],
                                    ![p].ord[o] = order]
            /\ lock' = Release(p)
            /\ pc' = [pc EXCEPT ![p] = "take_refresh"]
            /\ UNCHANGED <<now, orders, invoices, req, out, nreq>>

\* db.refresh(order, ["executor_takes"]) and the return value
TakeRefreshSkipped(p) ==
    /\ pc[p] = "take_refresh"
    /\ Finish(p, [code |-> 200, charged |-> TRUE,
                  contact |-> sess[p].ord[req[p].order].contact,
                  executor_count |-> Cardinality(TakesOf(takes, req[p].order)) - 1,
                  new_balance |-> sess[p].cache[req[p].user].balance])
    /\ UNCHANGED <<now, db, req, nreq>>

TakeRefresh(p) ==
    /\ pc[p] = "take_refresh"
    /\ Finish(p, [code |-> 200, charged |-> TRUE,
                  contact |-> sess[p].ord[req[p].order].contact,
                  executor_count |-> Cardinality(TakesOf(takes, req[p].order)),
                  new_balance |-> sess[p].cache[req[p].user].balance])
    /\ UNCHANGED <<now, db, req, nreq>>

\* ------------------------------------------ loops over User rows, commit
\* one "SELECT users WHERE id = ..." of a handler's loop and the statements up to
\* the next query: the autoflush before the SELECT writes (and locks) what was
\* modified so far, the SELECT returns the session's object if it has one
DecActiveSkipped(obj) == obj
DecActive(obj) == [obj EXCEPT !.active = Max(0, obj.active - 1)]

RefundTxn(u, o, bal) ==
    [user_id |-> u, type |-> REFUND, amount |-> order_take_cost,
     balance_after |-> bal, order_id |-> o, ext |-> 0]

\* BalanceService.refund_order
refund_order(obj, amount) == [obj EXCEPT !.balance = obj.balance + amount]

LoadUser(s) ==
    LET S == sess[s]
        it == Head(S.prog)
        u == it.user
        o == it.order
        need == S.dirty \cup (IF it.status # "" THEN {<<"order", o>>} ELSE {})
        obj == IF S.cache[u] # NoRow THEN S.cache[u] ELSE users[u]
        new == IF it.eff = "dec" THEN DecActive(obj)
               ELSE IF it.eff = "done"
               THEN [DecActive(obj) EXCEPT !.completed = obj.completed + 1]
               ELSE refund_order(DecActive(obj), order_take_cost)
        written == IF it.eff = "dec" THEN {"active"}
                   ELSE IF it.eff = "done" THEN {"active", "completed"}
                   ELSE {"active", "balance"}
    IN
    /\ pc[s] = "loop"
    /\ CanLock(s, need)
    /\ lock' = Acquire(s, need)
    /\ sess' = [sess EXCEPT
            ![s].cache[u] = new,
            ![s].cols[u] = @ \cup written,
            ![s].ord[o] = IF it.status # "" THEN [@ EXCEPT !.status = it.status] ELSE @,
            ![s].ocols[o] = IF it.status # "" THEN @ \cup {"status"} ELSE @,
            ![s].dirty = {<<"user", u>>},
            ![s].prog = Tail(S.prog),
            ![s].newTxns = IF it.eff = "refund"
                           THEN Append(@, RefundTxn(u, o, new.balance)) ELSE @]
    /\ pc' = [pc EXCEPT ![s] = IF Tail(S.prog) = <<>> THEN "commit" ELSE "loop"]
    /\ UNCHANGED <<now, db, req, out, nreq>>

\* db.commit(): the last flush, then everything becomes visible at once
CommitStep(s) ==
    /\ pc[s] = "commit"
    /\ CanLock(s, sess[s].dirty)
    /\ users' = CommitUsers(sess[s])
    /\ orders' = CommitOrders(sess[s])
    /\ txns' = txns \o sess[s].newTxns
    /\ Finish(s, sess[s].ret)
    /\ UNCHANGED <<now, takes, invoices, req, nreq>>

ExecutorItems(T, o, eff) ==
    LET es == SetToSeq(TakersOf(T, o))
    IN [i \in 1..Len(es) |-> [user |-> es[i], order |-> o, eff |-> eff, status |-> ""]]

\* ------------------------------------------------- close_order, complete_order
StartCloseBy(p, U, O, cap) == \E u \in U, o \in O : Start(p, "close", u, o, 0, "auth", cap)
StartCompleteBy(p, U, O, cap) ==
    \E u \in U, o \in O : Start(p, "complete", u, o, 0, "auth", cap)

\* the SELECT of the order with its takes (no lock), the checks, and the
\* assignments before the loop over the takes
Finalize(p, kind, status, eff) ==
    LET u == req[p].user
        o == req[p].order
        order == orders[o]
        mine == sess[p].cache[u]
        T == TakesOf(takes, o)
    IN
    /\ pc[p] = kind
    /\ IF order = NoRow THEN Rollback(p, [code |-> 404])
       ELSE IF order.client_id # u THEN Rollback(p, [code |-> 403])
       ELSE IF order.status # ACTIVE THEN Rollback(p, [code |-> 410])
       ELSE IF T = {} THEN Rollback(p, [code |-> 409])
       ELSE
         /\ sess' = [sess EXCEPT
                ![p].ord[o] = [order EXCEPT !.status = status],
                ![p].ocols[o] = {"status"},
                ![p].tk = T,
                ![p].cache[u] = IF eff = "done"
                                THEN [DecActive(mine) EXCEPT !.completed = mine.completed + 1]
                                ELSE DecActive(mine),
                ![p].cols[u] = IF eff = "done" THEN {"active", "completed"} ELSE {"active"},
                ![p].dirty = {<<"order", o>>, <<"user", u>>},
                ![p].prog = ExecutorItems(T, o, eff),
                ![p].ret = [code |-> IF eff = "done" THEN 200 ELSE 204]]
         /\ pc' = [pc EXCEPT ![p] = "loop"]
         /\ UNCHANGED <<now, db, lock, req, out, nreq>>

CloseRead(p) == Finalize(p, "close", CLOSED_NO_RESPONSE, "dec")
CompleteRead(p) == Finalize(p, "complete", COMPLETED, "done")

\* ------------------------------------------------------------ delete_order
StartDeleteBy(p, U, O, cap) == \E u \in U, o \in O : Start(p, "delete", u, o, 0, "auth", cap)

DeleteRead(p) ==
    LET u == req[p].user
        o == req[p].order
        order == orders[o]
        mine == sess[p].cache[u]
    IN
    /\ pc[p] = "delete"
    /\ IF order = NoRow \/ order.client_id # u THEN Rollback(p, [code |-> 404])
       ELSE IF TakesOf(takes, o) # {} THEN Rollback(p, [code |-> 403])
       ELSE
         /\ sess' = [sess EXCEPT
                ![p].ord[o] = [order EXCEPT !.status = DELETED],
                ![p].ocols[o] = {"status"},
                ![p].cache[u] = DecActive(mine),
                ![p].cols[u] = {"active"},
                ![p].dirty = {<<"order", o>>, <<"user", u>>},
                ![p].ret = [code |-> 204]]
         /\ pc' = [pc EXCEPT ![p] = "commit"]
         /\ UNCHANGED <<now, db, lock, req, out, nreq>>

\* ------------------------------------------------------------ update_order
\* a field the UpdateOrderRequest leaves out (None)
NotSupplied == 0

\* a patch that supplies the contact only
StartUpdateBy(p, U, O, cap) ==
    \E u \in U, o \in O, c \in Contacts :
        Start(p, "update", u, o,
              [category |-> NotSupplied, description |-> NotSupplied, contact |-> c],
              "auth", cap)

\* any patch: each of category, description and contact supplied or not
Descriptions == {1, 2}
Patches ==
    [category : {NotSupplied} \cup Categories,
     description : {NotSupplied} \cup Descriptions,
     contact : {NotSupplied} \cup Contacts]

StartPatchBy(p, U, O, cap) ==
    \E u \in U, o \in O, patch \in Patches : Start(p, "update", u, o, patch, "auth", cap)

\* the assignments of update_order: `if request.category: order.category = ...`
Supplied(patch) == {f \in {"category", "description", "contact"} : patch[f] # NotSupplied}

PatchedWhole(order, patch) ==
    [order EXCEPT !.category = patch.category,
                  !.description = patch.description,
                  !.contact = patch.contact]
Patched(order, patch) ==
    [order EXCEPT !.category = IF patch.category # NotSupplied THEN patch.category ELSE @,
                  !.description = IF patch.description # NotSupplied
                                  THEN patch.description ELSE @,
                  !.contact = IF patch.contact # NotSupplied THEN patch.contact ELSE @]

UpdateRead(p) ==
    LET u == req[p].user
        o == req[p].order
        order == orders[o]
        patch == req[p].arg
        changed == {f \in DOMAIN order : Patched(order, patch)[f] # order[f]}
    IN
    /\ pc[p] = "update"
    /\ IF order = NoRow \/ order.client_id # u THEN Rollback(p, [code |-> 404])
       ELSE IF TakesOf(takes, o) # {} THEN Rollback(p, [code |-> 403])
       ELSE IF is_expired(order, now) THEN Rollback(p, [code |-> 410])
       ELSE
         /\ sess' = [sess EXCEPT
                ![p].ord[o] = Patched(order, patch),
                ![p].ocols[o] = changed,
                ![p].dirty = IF changed = {} THEN {} ELSE {<<"order", o>>},
                ![p].ret = [code |-> 200]]
         /\ pc' = [pc EXCEPT ![p] = "commit"]
         /\ UNCHANGED <<now, db, lock, req, out, nreq>>

\* --------------------------------------------------------- respond_to_order
StartRespondBy(p, U, O, cap) ==
    \E u \in U, o \in O : Start(p, "respond", u, o, 0, "auth", cap)

RespondRead(p) ==
    LET u == req[p].user
        o == req[p].order
        order == orders[o]
    IN
    /\ pc[p] = "respond"
    /\ IF order = NoRow THEN Rollback(p, [code |-> 404])
       ELSE IF order.client_id # u THEN Rollback(p, [code |-> 403])
       ELSE IF order.status # ACTIVE THEN Rollback(p, [code |-> 410])
       ELSE IF TakesOf(takes, o) = {} THEN Rollback(p, [code |-> 409])
       ELSE IF order.customer_responded_at # NoTime THEN Rollback(p, [code |-> 409])
       ELSE
         /\ sess' = [sess EXCEPT
                ![p].ord[o] = [order EXCEPT !.customer_responded_at = now],
                ![p].ocols[o] = {"customer_responded_at"},
                ![p].dirty = {<<"order", o>>},
                ![p].ret = [code |-> 200]]
         /\ pc' = [pc EXCEPT ![p] = "commit"]
         /\ UNCHANGED <<now, db, lock, req, out, nreq>>

\* ------------------------------------------------------------ create_order
FreeOrderIds == {o \in Orders : orders[o] = NoRow}
Inserting == {q \in Procs : pc[q] = "create_commit"}

StartCreateBy(p, U, cap) ==
    \E u \in U, c \in Contacts : Start(p, "create", u, 0, c, "auth", cap)

\* the ACTIVE orders with this contact, as the SELECT of create_order finds them
ActiveWithContact(c) ==
    {o \in Orders : orders[o] # NoRow /\ orders[o].status = ACTIVE /\ orders[o].contact = c}

\* scalar_one_or_none(): one row is the 409, several rows raise MultipleResultsFound
CreateCheck(p) ==
    LET n == Cardinality(ActiveWithContact(req[p].arg))
    IN
    /\ pc[p] = "create"
    /\ IF n = 1 THEN Rollback(p, [code |-> 409])
       ELSE IF n > 1 THEN Rollback(p, [code |-> 500])
       ELSE /\ Cardinality(FreeOrderIds) > Cardinality(Inserting)    \* room in the store
            /\ pc' = [pc EXCEPT ![p] = "create_commit"]
            /\ UNCHANGED <<now, db, lock, req, sess, out, nreq>>

\* the requests of the model all name category 1 and city 1
NewOrder(u, c, t) ==
    [status |-> ACTIVE, client_id |-> u, contact |-> c, created_at |-> t,
     customer_responded_at |-> NoTime, category |-> 1, city |-> 1,
     description |-> 1, city_locked |-> TRUE]

\* db.add(order); user.active_orders_count += 1; commit
CreateCommit(p) ==
    LET u == req[p].user
    IN
    /\ pc[p] = "create_commit"
    /\ CanLock(p, {<<"user", u>>})
    /\ \E o \in FreeOrderIds :
         /\ orders' = [orders EXCEPT ![o] = NewOrder(u, req[p].arg, now)]
         /\ Finish(p, [code |-> 201, order |-> o])
    /\ users' = [users EXCEPT ![u].active = sess[p].cache[u].active + 1]
    /\ UNCHANGED <<now, takes, txns, invoices, req, nreq>>

\* ------------------------------------------------- get_order, list_orders
\* contact = None in a response
Hidden == 0
\* a filter that is not given
NoFilter == 0
Anonymous == 0

\* OrderResponse.model_validate(order)
OrderResponse(o, order, T) ==
    [id |-> o, category |-> order.category, city |-> order.city,
     contact |-> order.contact, created_at |-> order.created_at,
     status |-> order.status,
     taken_by |-> {[executor_id |-> t.executor_id, taken_at |-> t.taken_at] :
                      t \in TakesOf(T, o)},
     customer_responded_at |-> order.customer_responded_at]

\* OrderService.get_order: who is shown the contact
show_contactToAnyUser(o, order, T, viewer) == viewer # Anonymous
show_contact(o, order, T, viewer) ==
    /\ viewer # Anonymous
    /\ (order.client_id = viewer \/ viewer \in TakersOf(T, o))

\* the body of GET /orders/{order_id}
GetResponse(o, order, T, viewer) ==
    IF show_contact(o, order, T, viewer) THEN OrderResponse(o, order, T)
    ELSE [OrderResponse(o, order, T) EXCEPT !.contact = Hidden]

\* get_optional_user: no credentials, no lookup
FirstStep(viewer, kind) == IF viewer = Anonymous THEN kind ELSE "auth"

StartGetBy(p, V, O, cap) ==
    \E v \in V, o \in O : Start(p, "get", v, o, 0, FirstStep(v, "get"), cap)

GetRead(p) ==
    LET o == req[p].order
    IN
    /\ pc[p] = "get"
    /\ IF orders[o] = NoRow THEN Rollback(p, [code |-> 404])
       ELSE Rollback(p, [code |-> 200,
                         body |-> GetResponse(o, orders[o], takes, req[p].user)])

LISTABLE_STATUSESAll == OrderStatus
LISTABLE_STATUSES == {ACTIVE, EXPIRED, COMPLETED}

ListFilters ==
    [status : OrderStatus, category : {NoFilter} \cup Categories, city : {NoFilter} \cup Cities,
     mine : BOOLEAN]

\* the route's client_id = user.id if mine and user else None
client_id_of(viewer, f) == IF f.mine /\ viewer # Anonymous THEN viewer ELSE NoFilter

\* OrderService.list_orders: the status the query filters on
effective_status(f, client_id) ==
    IF client_id = NoFilter /\ f.status \notin LISTABLE_STATUSES THEN ACTIVE ELSE f.status

\* OrderService.list_orders: the rows of the query (limit above their number)
list_orders(f, client_id) ==
    {o \in Orders :
        /\ orders[o] # NoRow
        /\ client_id # NoFilter => orders[o].client_id = client_id
        /\ orders[o].status = effective_status(f, client_id)
        /\ f.category # NoFilter => orders[o].category = f.category
        /\ f.city # NoFilter => orders[o].city = f.city}

StartListBy(p, V, cap) ==
    \E v \in V, f \in ListFilters : Start(p, "list", v, 0, f, FirstStep(v, "list"), cap)

\* the route: every contact is set to None
ListRead(p) ==
    LET found == list_orders(req[p].arg, client_id_of(req[p].user, req[p].arg))
    IN
    /\ pc[p] = "list"
    /\ Rollback(p, [code |-> 200,
                    orders |-> {[OrderResponse(o, orders[o], takes) EXCEPT
                                    !.contact = Hidden] : o \in found},
                    total |-> Cardinality(found)])

\* ------------------------------------------------- notify_new_order
\* the background task of the create route runs after the 201 was returned
StartNotify(p) ==
    /\ pc[p] = "idle"
    /\ req[p].kind = "create"
    /\ out[p].code = 201
    /\ "notify" \notin DOMAIN out[p]
    /\ pc' = [pc EXCEPT ![p] = "notify_select"]
    /\ UNCHANGED <<now, db, lock, req, sess, out, nreq>>

\* the SELECT of the subscribed executors other than the client
Subscribed(category, city, client_id) ==
    {u \in Users : /\ users[u].notifications_enabled
                   /\ category \in users[u].subscribed_categories
                   /\ city \in users[u].subscribed_cities
                   /\ u # client_id}

\* the filter by notification frequency
InCooldown(row, t) ==
    /\ row.last_notified_at # NoTime
    /\ t < row.last_notified_at + notification_frequency_minutes

\* the end of the task: nothing is raised, a failure is logged
NotifyEnd(p, note) ==
    /\ pc' = [pc EXCEPT ![p] = "idle"]
    /\ sess' = [sess EXCEPT ![p] = EmptySess]
    /\ lock' = Release(p)
    /\ out' = [out EXCEPT ![p] = note]

\* _send_notifications up to the loop, or the store error that ends the task
NotifySelect(p) ==
    LET order == orders[out[p].order]
        found == Subscribed(order.category, order.city, order.client_id)
        eligible == {u \in found : ~InCooldown(users[u], now)}
        note(e, log) == out[p] @@ [notify |-> [now |-> now, eligible |-> e,
                                               attempted |-> {}, delivered |-> {},
                                               log |-> log]]
    IN
    /\ pc[p] = "notify_select"
    /\ \/ /\ NotifyEnd(p, note({}, "Failed to send notifications"))
          /\ UNCHANGED <<now, db, req, nreq>>
       \/ /\ eligible = {}
          /\ NotifyEnd(p, note({}, IF found = {} THEN "No subscribed executors"
                                   ELSE "All executors are in cooldown"))
          /\ UNCHANGED <<now, db, req, nreq>>
       \/ /\ eligible # {}
          /\ sess' = [sess EXCEPT
                 ![p].cache = [u \in Users |-> IF u \in found THEN users[u] ELSE NoRow],
                 ![p].prog = SetToSeq(eligible)]
          /\ out' = [out EXCEPT ![p] = note(eligible, "")]
          /\ pc' = [pc EXCEPT ![p] = "notify_send"]
          /\ UNCHANGED <<now, db, lock, req, nreq>>

\* the answers of the channel to one send
Answers == {"200", "not 200", "exception"}

\* one pass of the loop over the eligible executors: the POST and its answer
NotifySendAborting(p) ==
    LET u == Head(sess[p].prog)
    IN
    /\ pc[p] = "notify_send"
    /\ \E answer \in Answers :
         /\ sess' = [sess EXCEPT
                ![p].cache[u] = IF answer = "200"
                                THEN [@ EXCEPT !.last_notified_at = out[p].notify.now]
                                ELSE @,
                ![p].cols[u] = IF answer = "200" THEN {"last_notified_at"} ELSE @,
                ![p].dirty = IF answer = "200" THEN @ \cup {<<"user", u>>} ELSE @,
                ![p].prog = Tail(@)]
         /\ out' = [out EXCEPT
                ![p].notify.attempted = @ \cup {u},
                ![p].notify.delivered = IF answer = "200" THEN @ \cup {u} ELSE @]
         /\ pc' = [pc EXCEPT ![p] = IF Tail(sess[p].prog) = <<>> \/ answer = "exception"
                                    THEN "notify_commit" ELSE "notify_send"]
    /\ UNCHANGED <<now, db, lock, req, nreq>>

NotifySend(p) ==
    LET u == Head(sess[p].prog)
    IN
    /\ pc[p] = "notify_send"
    /\ \E answer \in Answers :
         /\ sess' = [sess EXCEPT
                ![p].cache[u] = IF answer = "200"
                                THEN [@ EXCEPT !.last_notified_at = out[p].notify.now]
                                ELSE @,
                ![p].cols[u] = IF answer = "200" THEN {"last_notified_at"} ELSE @,
                ![p].dirty = IF answer = "200" THEN @ \cup {<<"user", u>>} ELSE @,
                ![p].prog = Tail(@)]
         /\ out' = [out EXCEPT
                ![p].notify.attempted = @ \cup {u},
                ![p].notify.delivered = IF answer = "200" THEN @ \cup {u} ELSE @]
         /\ pc' = [pc EXCEPT ![p] = IF Tail(sess[p].prog) = <<>>
                                    THEN "notify_commit" ELSE "notify_send"]
    /\ UNCHANGED <<now, db, lock, req, nreq>>

\* db.commit() of the task, or the store error that the task logs
NotifyCommit(p) ==
    /\ pc[p] = "notify_commit"
    /\ \/ /\ CanLock(p, sess[p].dirty)
          /\ users' = CommitUsers(sess[p])
          /\ NotifyEnd(p, [out[p] EXCEPT !.notify.log = "Notified"])
          /\ UNCHANGED <<now, orders, takes, txns, invoices, req, nreq>>
       \/ /\ NotifyEnd(p, [out[p] EXCEPT !.notify.log = "Failed to send notifications"])
          /\ UNCHANGED <<now, db, req, nreq>>

\* ------------------------------------------------- BalanceService.recharge_balance
Amounts == {0, MaxAmount}

StartRechargeBy(p, U, A, cap) ==
    \E u \in U, a \in A : Start(p, "recharge", u, 0, a, "auth", cap)

RechargeTxn(u, a, bal, ext) ==
    [user_id |-> u, type |-> RECHARGE, amount |-> a, balance_after |-> bal,
     order_id |-> 0, ext |-> ext]

\* SELECT ... FOR UPDATE returns the object get_current_user loaded
Recharge(p) ==
    LET u == req[p].user
        a == req[p].arg
        bal == sess[p].cache[u].balance + a
    IN
    /\ pc[p] = "recharge"
    /\ IF a <= 0 THEN Rollback(p, [code |-> 400])
       ELSE
         /\ CanLock(p, {<<"user", u>>})
         /\ users' = [users EXCEPT ![u].balance = bal]
         /\ txns' = Append(txns, RechargeTxn(u, a, bal, 0))
         /\ Finish(p, [code |-> 200, new_balance |-> bal])
         /\ UNCHANGED <<now, orders, takes, invoices, req, nreq>>

\* ------------------------------------------------- CryptoPaymentService
StartCreateInvoiceBy(p, U, cap) ==
    /\ \E i \in Invoices : invoices[i] = NoRow
    /\ \E u \in U : Start(p, "create_invoice", u, 0, MaxAmount, "auth", cap)

\* a call of the service with any amount (the route's schema admits amounts >= 1)
StartCreateInvoiceAmt(p, U, A, cap) ==
    /\ \E i \in Invoices : invoices[i] = NoRow
    /\ \E u \in U, a \in A : Start(p, "create_invoice", u, 0, a, "auth", cap)

\* create_invoice: the amount check
InvalidAmountNegativeOnly(a) == a < 0
InvalidAmount(a) == a <= 0

\* what client.create_invoice does: returns an invoice or raises
ProviderAnswers == {"invoice", "error"}

\* the amount check, the settings check, then the provider mints an invoice id and
\* the PaymentInvoice row is inserted PENDING; an exception of the provider leaves
\* the handler before db.add
CreateInvoice(p) ==
    /\ pc[p] = "create_invoice"
    /\ \E token \in BOOLEAN, answer \in ProviderAnswers :
         IF InvalidAmount(req[p].arg)
         THEN Rollback(p, [code |-> 400, provider |-> "not called"])
         ELSE IF ~token
         THEN Rollback(p, [code |-> 503, provider |-> "not called"])
         ELSE IF answer = "error"
         THEN Rollback(p, [code |-> 500, provider |-> "failed"])
         ELSE \E i \in Invoices :
                /\ invoices[i] = NoRow
                /\ invoices' = [invoices EXCEPT ![i] =
                       [status |-> PENDING, user_id |-> req[p].user,
                        amount |-> req[p].arg,
                        balance_transaction_id |-> 0, paid_at |-> NoTime]]
                /\ Finish(p, [code |-> 200, invoice |-> i, provider |-> "called"])
                /\ UNCHANGED <<now, users, orders, takes, txns, req, nreq>>

\* crypto_bot_webhook with update_type = invoice_paid and a valid signature
StartWebhookCap(p, cap) == \E i \in Invoices : Start(p, "webhook", 0, 0, i, "webhook", cap)

\* the route's answer after process_paid_invoice returned: {"ok": True}
WebhookAnswerFailed(log) == [code |-> 500, ok |-> FALSE, log |-> log]
WebhookAnswer(log) == [code |-> 200, ok |-> TRUE, log |-> log]

\* the idempotency check of process_paid_invoice
AlreadyPaidIgnored(inv) == FALSE
AlreadyPaid(inv) == inv.status = PAID

\* process_paid_invoice: the invoice update after the flush of the transaction
MarkPaidUnlinked(inv, id, t) == [inv EXCEPT !.status = PAID]
MarkPaid(inv, id, t) ==
    [inv EXCEPT !.status = PAID, !.balance_transaction_id = id, !.paid_at = t]

\* process_paid_invoice: SELECT payment_invoices ... FOR UPDATE
WebhookLockInvoice(p) ==
    LET i == req[p].arg
    IN
    /\ pc[p] = "webhook"
    /\ IF invoices[i] = NoRow
       THEN Rollback(p, WebhookAnswer("invoice not found"))
       ELSE
         /\ CanLock(p, {<<"invoice", i>>})
         /\ IF AlreadyPaid(invoices[i])
            THEN Rollback(p, WebhookAnswer("already paid"))
            ELSE
              /\ lock' = Acquire(p, {<<"invoice", i>>})
              /\ pc' = [pc EXCEPT ![p] = "webhook_credit"]
              /\ UNCHANGED <<now, db, req, sess, out, nreq>>

\* process_paid_invoice: SELECT users ... FOR UPDATE (a first load: fresh), the
\* credit, the transaction, the invoice update, the commit
WebhookCredit(p) ==
    LET i == req[p].arg
        inv == invoices[i]
        u == inv.user_id
        bal == users[u].balance + inv.amount
    IN
    /\ pc[p] = "webhook_credit"
    /\ CanLock(p, {<<"user", u>>})
    /\ users' = [users EXCEPT ![u].balance = bal]
    /\ txns' = Append(txns, RechargeTxn(u, inv.amount, bal, i))
    /\ invoices' = [invoices EXCEPT ![i] = MarkPaid(inv, Len(txns) + 1, now)]
    /\ Finish(p, WebhookAnswer("paid"))
    /\ UNCHANGED <<now, orders, takes, req, nreq>>

\* ------------------------------------------------- auto_close_expired_orders
\* the deadline the pass computes for an order
expiryLate(order) == order.created_at + order_lifetime_minutes + 1
expiry(order) == order.created_at + order_lifetime_minutes

\* the work one order of the pass's snapshot causes: nothing, expiry, or the
\* no-response close with refunds
SweepItemsNoResponseFirst(o, order, T, t) ==
    IF TakesOf(T, o) # {} /\ order.customer_responded_at = NoTime
       /\ t >= MinOf({x.taken_at : x \in TakesOf(T, o)}) + no_response_close_minutes
    THEN <<[user |-> order.client_id, order |-> o, eff |-> "dec",
            status |-> CLOSED_NO_RESPONSE]>>
         \o ExecutorItems(T, o, "refund")
    ELSE IF t >= expiry(order)
    THEN <<[user |-> order.client_id, order |-> o, eff |-> "dec", status |-> EXPIRED]>>
         \o ExecutorItems(T, o, "dec")
    ELSE <<>>

SweepItems(o, order, T, t) ==
    IF t >= expiry(order)
    THEN <<[user |-> order.client_id, order |-> o, eff |-> "dec", status |-> EXPIRED]>>
         \o ExecutorItems(T, o, "dec")
    ELSE IF TakesOf(T, o) # {} /\ order.customer_responded_at = NoTime
            /\ t >= MinOf({x.taken_at : x \in TakesOf(T, o)}) + no_response_close_minutes
    THEN <<[user |-> order.client_id, order |-> o, eff |-> "dec",
            status |-> CLOSED_NO_RESPONSE]>>
         \o ExecutorItems(T, o, "refund")
    ELSE <<>>

RECURSIVE SweepProg(_, _, _)
SweepProg(os, T, t) ==
    IF os = <<>> THEN <<>>
    ELSE SweepItems(Head(os), orders[Head(os)], T, t) \o SweepProg(Tail(os), T, t)

ActiveOrders == {o \in Orders : orders[o] # NoRow /\ orders[o].status = ACTIVE}

\* the SELECT of the ACTIVE orders with their takes; a pass that finds nothing due
\* commits nothing and is no step
SweepStart ==
    LET P == SweepProg(SetToSeq(ActiveOrders), takes, now)
    IN
    /\ pc[Sweeper] = "idle"
    /\ P # <<>>
    /\ sess' = [sess EXCEPT ![Sweeper] =
            [EmptySess EXCEPT !.ord = [o \in Orders |->
                                         IF o \in ActiveOrders THEN orders[o] ELSE NoRow],
                              !.tk = {x \in takes : x.order_id \in ActiveOrders},
                              !.prog = P,
                              !.ret = [code |-> 1, now |-> now]]]
    /\ pc' = [pc EXCEPT ![Sweeper] = "loop"]
    /\ UNCHANGED <<now, db, lock, req, out, nreq>>

\* _timer_loop: a statement of the pass raises; the `async with` block is left, the
\* session is closed without a commit, the exception is logged and the loop sleeps
SweepFailCommitted ==
    /\ pc[Sweeper] \in {"loop", "commit"}
    /\ users' = CommitUsers(sess[Sweeper])
    /\ orders' = CommitOrders(sess[Sweeper])
    /\ txns' = txns \o sess[Sweeper].newTxns
    /\ Finish(Sweeper, [code |-> 500, log |-> "Timer loop error"])
    /\ UNCHANGED <<now, takes, invoices, req, nreq>>

SweepFail ==
    /\ pc[Sweeper] \in {"loop", "commit"}
    /\ Rollback(Sweeper, [code |-> 500, log |-> "Timer loop error"])

\* lifespan: timer_task.cancel() at an await of the pass; the session is closed
\* without a commit (a later pass belongs to a restarted process)
SweepCancel ==
    /\ pc[Sweeper] \in {"loop", "commit"}
    /\ Rollback(Sweeper, [code |-> 0, log |-> "cancelled"])

\* ------------------------------------------------------------- row locks
\* the rows the next statement of session s locks
Needs(s) ==
    IF pc[s] = "take" THEN {<<"user", req[s].user>>}
    ELSE IF pc[s] = "take_lock_order"
    THEN (IF orders[req[s].order] = NoRow THEN {} ELSE {<<"order", req[s].order>>})
    ELSE IF pc[s] = "loop"
    THEN sess[s].dirty \cup (IF Head(sess[s].prog).status # ""
                             THEN {<<"order", Head(sess[s].prog).order>>} ELSE {})
    ELSE IF pc[s] = "commit" THEN sess[s].dirty
    ELSE IF pc[s] = "recharge"
    THEN (IF req[s].arg <= 0 THEN {} ELSE {<<"user", req[s].user>>})
    ELSE IF pc[s] = "create_commit" THEN {<<"user", req[s].user>>}
    ELSE IF pc[s] = "webhook"
    THEN (IF invoices[req[s].arg] = NoRow THEN {} ELSE {<<"invoice", req[s].arg>>})
    ELSE IF pc[s] = "webhook_credit" THEN {<<"user", invoices[req[s].arg].user_id>>}
    ELSE {}

\* s waits for a row that q has locked
WaitsFor(s, q) == s # q /\ \E r \in Needs(s) : lock[r] = q

InCycle(s) ==
    \E q \in Sessions :
        /\ WaitsFor(s, q)
        /\ (WaitsFor(q, s) \/ \E r \in Sessions : WaitsFor(q, r) /\ WaitsFor(r, s))

\* the database ends a lock cycle by aborting one of its transactions; the error
\* leaves the handler (500) or the pass (logged by _timer_loop)
DeadlockAbort(s) ==
    /\ InCycle(s)
    /\ Rollback(s, [code |-> 500, log |-> "deadlock detected"])

\* ----------------------------------------------------------- specifications
Clients == {1}
Executors == Users \ Clients

User0 ==
    [balance |-> 0, active |-> 0, completed |-> 0,
     notifications_enabled |-> FALSE, subscribed_categories |-> {},
     subscribed_cities |-> {}, last_notified_at |-> NoTime]

Idle ==
    /\ lock = [r \in Rows |-> Free]
    /\ pc = [s \in Sessions |-> "idle"]
    /\ req = [s \in Sessions |-> NoReq]
    /\ sess = [s \in Sessions |-> EmptySess]
    /\ out = [s \in Sessions |-> NoOut]
    /\ nreq = 0

\* the store of a fresh deployment: users exist (get_current_user creates them
\* with balance 0), nothing else does
Init ==
    /\ now = 0
    /\ users = [u \in Users |-> User0]
    /\ orders = [o \in Orders |-> NoRow]
    /\ takes = {}
    /\ txns = <<>>
    /\ invoices = [i \in Invoices |-> NoRow]
    /\ Idle

\* the store after the client created orders 1 and 2 at time 0, every executor
\* recharged the cost of one take and the executors of `takers` took order 1
RECURSIVE SeedLog(_, _)
SeedLog(es, takers) ==
    IF es = <<>> THEN <<>>
    ELSE <<RechargeTxn(Head(es), order_take_cost, order_take_cost, 0)>>
         \o (IF Head(es) \in takers THEN <<TakeTxn(Head(es), 1, 0)>> ELSE <<>>)
         \o SeedLog(Tail(es), takers)

SeedOrders(takers, n) ==
    /\ now = 0
    /\ users = [u \in Users |->
                  IF u \in Clients THEN [User0 EXCEPT !.active = n]
                  ELSE IF u \in takers THEN [User0 EXCEPT !.active = 1]
                  ELSE [User0 EXCEPT !.balance = order_take_cost]]
    /\ orders = [o \in Orders |-> IF o <= n THEN NewOrder(1, o, 0) ELSE NoRow]
    /\ takes = {[order_id |-> 1, executor_id |-> e, taken_at |-> 0] : e \in takers}
    /\ txns = SeedLog(SetToSeq(Executors), takers)
    /\ invoices = [i \in Invoices |-> NoRow]
    /\ Idle

Seed(takers) == SeedOrders(takers, 2)

TakeInit == Seed({})

TakeStep(p) ==
    \/ StartTakeBy(p, Executors, Orders, MaxReqs)
    \/ StartRechargeBy(p, Executors, {MaxAmount}, MaxReqs)
    \/ Auth(p) \/ TakeLockExecutor(p) \/ TakeLockOrder(p) \/ TakeRefresh(p)
    \/ Recharge(p)

TakeNext == \E p \in Procs : TakeStep(p)

SpecTake == TakeInit /\ [][TakeNext]_vars

SlotStep(p) ==
    \/ StartTakeBy(p, Executors, {1}, MaxReqs)
    \/ StartCloseBy(p, Clients, {1}, MaxReqs)
    \/ Auth(p) \/ TakeLockExecutor(p) \/ TakeLockOrder(p) \/ TakeRefresh(p)
    \/ CloseRead(p) \/ LoadUser(p) \/ CommitStep(p)

SlotNext ==
    \/ \E p \in Procs : SlotStep(p)
    \/ SweepStart \/ LoadUser(Sweeper) \/ CommitStep(Sweeper)
    \/ Tick

\* all but one slot of order 1 are taken
SlotInit == Seed(2..max_executors_per_order)

SpecSlots == SlotInit /\ [][SlotNext]_vars

\* the whole lifecycle of two orders: order 1 was taken by executor 2 at time 0,
\* order 2 has no take yet
LifeInit == Seed({2})
LifeExecutors == {2, 3}

LifeStep(p) ==
    \/ StartTakeBy(p, LifeExecutors, Orders, MaxLifeReqs)
    \/ StartCloseBy(p, Clients, Orders, MaxLifeReqs)
    \/ StartCompleteBy(p, Clients, Orders, MaxLifeReqs)
    \/ StartRespondBy(p, Clients, Orders, MaxLifeReqs)
    \/ StartDeleteBy(p, Clients, Orders, MaxLifeReqs)
    \/ StartRechargeBy(p, LifeExecutors, {MaxAmount}, MaxLifeReqs)
    \/ Auth(p) \/ TakeLockExecutor(p) \/ TakeLockOrder(p) \/ TakeRefresh(p)
    \/ CloseRead(p) \/ CompleteRead(p) \/ RespondRead(p) \/ DeleteRead(p)
    \/ Recharge(p) \/ LoadUser(p) \/ CommitStep(p)

LifeNext ==
    \/ \E p \in Procs : LifeStep(p)
    \/ SweepStart \/ LoadUser(Sweeper) \/ CommitStep(Sweeper)
    \/ Tick

SpecLife == LifeInit /\ [][LifeNext]_vars

\* the same lifecycle with the database's deadlock detection
LocksNext ==
    \/ LifeNext
    \/ \E s \in Sessions : DeadlockAbort(s)

SpecLocks == LifeInit /\ [][LocksNext]_vars

\* orders are created, edited and deleted by two clients from the empty store,
\* and expire
ContactClients == {1, 2}

ContactStep(p) ==
    \/ StartCreateBy(p, ContactClients, MaxReqs)
    \/ StartUpdateBy(p, ContactClients, Orders, MaxReqs)
    \/ StartDeleteBy(p, ContactClients, Orders, MaxReqs)
    \/ Auth(p) \/ CreateCheck(p) \/ CreateCommit(p)
    \/ UpdateRead(p) \/ DeleteRead(p) \/ CommitStep(p)

ContactNext ==
    \/ \E p \in Procs : ContactStep(p)
    \/ SweepStart \/ LoadUser(Sweeper) \/ CommitStep(Sweeper)
    \/ Tick

SpecContact == Init /\ [][ContactNext]_vars

\* an invoice is created and its invoice_paid webhook is delivered again and again,
\* while the owner also recharges directly
PayUsers == {2, 3}

PayStep(p) ==
    \/ StartCreateInvoiceBy(p, PayUsers, MaxPayReqs)
    \/ StartWebhookCap(p, MaxPayReqs)
    \/ StartRechargeBy(p, PayUsers, Amounts, MaxPayReqs)
    \/ Auth(p) \/ CreateInvoice(p) \/ WebhookLockInvoice(p) \/ WebhookCredit(p)
    \/ Recharge(p)

PayNext == \E p \in Procs : PayStep(p)

SpecPay == Init /\ [][PayNext]_vars

\* invoices are requested with good and bad amounts, with and without a provider
\* token, with a provider that may fail, while users recharge and webhooks arrive
MintAmounts == {-1, 0, 1, MaxAmount}

MintStep(p) ==
    \/ StartCreateInvoiceAmt(p, PayUsers, MintAmounts, MaxPayReqs)
    \/ StartWebhookCap(p, MaxPayReqs)
    \/ StartRechargeBy(p, PayUsers, {MaxAmount}, MaxPayReqs)
    \/ Auth(p) \/ CreateInvoice(p) \/ WebhookLockInvoice(p) \/ WebhookCredit(p)
    \/ Recharge(p)

MintNext == \E p \in Procs : MintStep(p)

SpecMint == Init /\ [][MintNext]_vars

\* the payment routes on a store whose invoice row, if there is one, is pending or
\* carries the third value of InvoiceStatus
InvoiceInit ==
    /\ now = 0
    /\ users = [u \in Users |-> User0]
    /\ orders = [o \in Orders |-> NoRow]
    /\ takes = {}
    /\ txns = <<>>
    /\ \E st \in {PENDING, INVOICE_EXPIRED}, rows \in SUBSET Invoices :
         invoices = [i \in Invoices |->
                        IF i \in rows
                        THEN [status |-> st, user_id |-> 2, amount |-> MaxAmount,
                              balance_transaction_id |-> 0, paid_at |-> NoTime]
                        ELSE NoRow]
    /\ Idle

SpecInvoice == InvoiceInit /\ [][PayNext]_vars

\* requests and sweep passes served one after the other: a request starts, and a
\* pass starts, only when no other is under way
Quiet == \A s \in Sessions : pc[s] = "idle"
SeqUsers == {1, 2, 3}
SeqInit == Seed({}) \/ Seed({2})

SeqStep(p) ==
    \/ Quiet /\ StartTakeBy(p, SeqUsers, Orders, MaxSeqReqs)
    \/ Quiet /\ StartCloseBy(p, SeqUsers, Orders, MaxSeqReqs)
    \/ Quiet /\ StartCompleteBy(p, SeqUsers, Orders, MaxSeqReqs)
    \/ Quiet /\ StartRespondBy(p, SeqUsers, Orders, MaxSeqReqs)
    \/ Quiet /\ StartDeleteBy(p, SeqUsers, Orders, MaxSeqReqs)
    \/ Auth(p) \/ TakeLockExecutor(p) \/ TakeLockOrder(p) \/ TakeRefresh(p)
    \/ CloseRead(p) \/ CompleteRead(p) \/ RespondRead(p) \/ DeleteRead(p)
    \/ LoadUser(p) \/ CommitStep(p)

SeqNext ==
    \/ SeqStep(1)
    \/ Quiet /\ SweepStart
    \/ LoadUser(Sweeper) \/ CommitStep(Sweeper)
    \/ Tick

SpecSeq == SeqInit /\ [][SeqNext]_vars

\* every outcome of take: order 1 has one slot left and order 2 is open, or order 2
\* does not exist; anybody, the client included, takes, and the client closes
GateInit ==
    \/ Seed(2..max_executors_per_order)
    \/ SeedOrders(2..max_executors_per_order, 1)

GateStep(p) ==
    \/ StartTakeBy(p, Users, Orders, MaxReqs)
    \/ StartCloseBy(p, Clients, {1}, MaxReqs)
    \/ Auth(p) \/ TakeLockExecutor(p) \/ TakeLockOrder(p) \/ TakeRefresh(p)
    \/ CloseRead(p) \/ LoadUser(p) \/ CommitStep(p)

GateNext == \E p \in Procs : GateStep(p)

SpecGate == GateInit /\ [][GateNext]_vars

\* the sweeper with failing and cancelled passes, between takes served one at a time
SweepInit == Seed({}) \/ Seed({2})

SweepStep(p) ==
    \/ Quiet /\ StartTakeBy(p, {2, 3}, Orders, MaxSweepReqs)
    \/ Auth(p) \/ TakeLockExecutor(p) \/ TakeLockOrder(p) \/ TakeRefresh(p)
    \/ CommitStep(p)

SweepNext ==
    \/ SweepStep(1)
    \/ Quiet /\ SweepStart
    \/ LoadUser(Sweeper) \/ CommitStep(Sweeper)
    \/ SweepFail \/ SweepCancel
    \/ Tick

SpecSweep == SweepInit /\ [][SweepNext]_vars

\* the client closes and completes its orders from two workers while executor 3
\* takes them; no sweeper and no clock
FinishInit == Seed({2})

FinishStep(p) ==
    \/ StartCloseBy(p, Clients, Orders, MaxReqs)
    \/ StartCompleteBy(p, Clients, Orders, MaxReqs)
    \/ StartTakeBy(p, {3}, Orders, MaxReqs)
    \/ Auth(p) \/ CloseRead(p) \/ CompleteRead(p)
    \/ TakeLockExecutor(p) \/ TakeLockOrder(p) \/ TakeRefresh(p)
    \/ LoadUser(p) \/ CommitStep(p)

FinishNext == \E p \in Procs : FinishStep(p)

SpecFinish == FinishInit /\ [][FinishNext]_vars

\* the statements of the handler worker p is in
Handle(p) ==
    \/ Auth(p) \/ TakeLockExecutor(p) \/ TakeLockOrder(p) \/ TakeRefresh(p)
    \/ CloseRead(p) \/ RespondRead(p)
    \/ LoadUser(p) \/ CommitStep(p)

\* the lifecycle with a sweeper whose passes fail only transiently (never twice in
\* a row), the database's deadlock detection, and the scheduling of the server:
\* the clock advances, _timer_loop starts a pass every minute, and a statement
\* that waits for a row lock gets it once the lock is released often enough (the
\* lock's wait queue)
SweepFailTransient == out[Sweeper].code # 500 /\ SweepFail

LiveStep(p) ==
    \/ StartTakeBy(p, LifeExecutors, {1}, MaxLiveReqs)
    \/ StartCloseBy(p, Clients, {1}, MaxLiveReqs)
    \/ StartRespondBy(p, Clients, {1}, MaxLiveReqs)
    \/ Handle(p)

LiveNext ==
    \/ \E p \in Procs : LiveStep(p)
    \/ SweepStart \/ LoadUser(Sweeper) \/ CommitStep(Sweeper)
    \/ SweepFailTransient
    \/ \E s \in Sessions : DeadlockAbort(s)
    \/ Tick

LiveFairness ==
    /\ WF_vars(Tick)
    /\ WF_vars(SweepStart)
    /\ SF_vars(LoadUser(Sweeper) \/ CommitStep(Sweeper))
    /\ \A p \in Procs : SF_vars(Handle(p))
    /\ WF_vars(\E s \in Sessions : DeadlockAbort(s))

SpecLive == LifeInit /\ [][LiveNext]_vars /\ LiveFairness

\* the client edits order 1 while executor 2 takes it; order 2 does not exist
EditInit == SeedOrders({}, 1)

EditStep(p) ==
    \/ StartUpdateBy(p, {1, 2}, Orders, MaxReqs)
    \/ StartTakeBy(p, {2}, {1}, MaxReqs)
    \/ Auth(p) \/ UpdateRead(p)
    \/ TakeLockExecutor(p) \/ TakeLockOrder(p) \/ TakeRefresh(p)
    \/ LoadUser(p) \/ CommitStep(p)

EditNext ==
    \/ \E p \in Procs : EditStep(p)
    \/ Tick

SpecEdit == EditInit /\ [][EditNext]_vars

\* the client creates an order next to order 1 and patches both with every
\* combination of fields, while executor 2 takes them and the clock advances
PatchStep(p) ==
    \/ StartCreateBy(p, Clients, MaxPatchReqs)
    \/ StartPatchBy(p, Clients, Orders, MaxPatchReqs)
    \/ StartTakeBy(p, {2}, Orders, MaxPatchReqs)
    \/ Auth(p) \/ CreateCheck(p) \/ CreateCommit(p) \/ UpdateRead(p)
    \/ TakeLockExecutor(p) \/ TakeLockOrder(p) \/ TakeRefresh(p)
    \/ LoadUser(p) \/ CommitStep(p)

PatchNext ==
    \/ \E p \in Procs : PatchStep(p)
    \/ Tick

SpecPatch == EditInit /\ [][PatchNext]_vars

\* client 1 creates orders (category 1, city 1); executors 2 and 3 are subscribed
\* to them, executor 3 possibly notified at minute 0, executor 4 is subscribed to
\* another category, executor 5 has notifications off
NotifyInit ==
    /\ now = 0
    /\ \E last \in {NoTime, 0} :
         users = [u \in Users |->
                    IF u \in {2, 3}
                    THEN [User0 EXCEPT !.notifications_enabled = TRUE,
                                       !.subscribed_categories = {1},
                                       !.subscribed_cities = {1},
                                       !.last_notified_at = IF u = 3 THEN last ELSE NoTime]
                    ELSE IF u = 4
                    THEN [User0 EXCEPT !.notifications_enabled = TRUE,
                                       !.subscribed_categories = {2},
                                       !.subscribed_cities = {1}]
                    ELSE User0]
    /\ orders = [o \in Orders |-> NoRow]
    /\ takes = {}
    /\ txns = <<>>
    /\ invoices = [i \in Invoices |-> NoRow]
    /\ Idle

NotifyStep(p) ==
    \/ StartCreateBy(p, Clients, MaxNotifyReqs)
    \/ Auth(p) \/ CreateCheck(p) \/ CreateCommit(p)
    \/ StartNotify(p) \/ NotifySelect(p) \/ NotifySend(p) \/ NotifyCommit(p)

NotifyNext ==
    \/ \E p \in Procs : NotifyStep(p)
    \/ Tick

SpecNotify == NotifyInit /\ [][NotifyNext]_vars

\* the client recharges and tries to take the client's own orders, next to the
\* takes of executor 3
OwnInit == Seed({2})

OwnStep(p) ==
    \/ StartRechargeBy(p, Clients, {order_take_cost}, MaxReqs)
    \/ StartTakeBy(p, Clients \cup {3}, Orders, MaxReqs)
    \/ Auth(p) \/ Recharge(p)
    \/ TakeLockExecutor(p) \/ TakeLockOrder(p) \/ TakeRefresh(p)
    \/ LoadUser(p) \/ CommitStep(p)

OwnNext ==
    \/ \E p \in Procs : OwnStep(p)
    \/ Tick

SpecOwn == OwnInit /\ [][OwnNext]_vars

\* the views: any table of two orders of client 1 (order 1 taken by executor 2 or
\* not, order 2 taken by executor 3), one get, list or take by anybody or by nobody
Viewers == {Anonymous, 1, 2}

ViewTake(o, e) == [order_id |-> o, executor_id |-> e, taken_at |-> 0]

\* the ledger of executors who recharged the cost of one take and spent it on T
ViewLog(T) ==
    LET es == SetToSeq(Executors)
    IN [i \in 1..Len(es) |-> RechargeTxn(es[i], order_take_cost, order_take_cost, 0)]
       \o (IF ViewTake(1, 2) \in T THEN <<TakeTxn(2, 1, 0)>> ELSE <<>>)
       \o <<TakeTxn(3, 2, 0)>>

ViewInit ==
    /\ now = 0
    /\ \E st \in [Orders -> OrderStatus], cat \in [Orders -> Categories],
          ci \in [Orders -> Cities],
          T \in {{ViewTake(2, 3)}, {ViewTake(1, 2), ViewTake(2, 3)}} :
         /\ orders = [o \in Orders |->
                        [NewOrder(1, o, 0) EXCEPT !.status = st[o],
                                                  !.category = cat[o], !.city = ci[o]]]
         /\ takes = T
         /\ txns = ViewLog(T)
         /\ users = [u \in Users |->
                       IF u \in Clients
                       THEN [User0 EXCEPT
                               !.active = Cardinality({o \in Orders : st[o] = ACTIVE})]
                       ELSE IF u \in {t.executor_id : t \in T}
                       THEN [User0 EXCEPT
                               !.active = Cardinality({t \in T :
                                              /\ t.executor_id = u
                                              /\ st[t.order_id] = ACTIVE})]
                       ELSE [User0 EXCEPT !.balance = order_take_cost]]
    /\ invoices = [i \in Invoices |-> NoRow]
    /\ Idle

ViewStep(p) ==
    \/ StartGetBy(p, Viewers, Orders, MaxViewReqs)
    \/ StartListBy(p, Viewers, MaxViewReqs)
    \/ StartTakeBy(p, Viewers \ {Anonymous}, Orders, MaxViewReqs)
    \/ Auth(p) \/ GetRead(p) \/ ListRead(p)
    \/ TakeLockExecutor(p) \/ TakeLockOrder(p) \/ TakeRefresh(p)

ViewNext == ViewStep(1)

SpecView == ViewInit /\ [][ViewNext]_vars

\* ------------------------------------------------------------------ claims
TakeTxnsOf(e, o) ==
    {i \in 1..Len(txns) : txns[i].type = ORDER_TAKE /\ txns[i].user_id = e
                          /\ txns[i].order_id = o}

FinishedTake(p) == req[p].kind = "take" /\ pc[p] = "idle" /\ out[p] # NoOut

\* C1: no order ever has more than max_executors_per_order ExecutorTake rows, under
\* every interleaving of takes with the sweeper and the client's close; a take is
\* refused with 409 only when the order's slots are all taken, and the refused
\* executor holds no take on the order and was not charged for it
C1_AtMostNTakes ==
    /\ \A o \in Orders : Cardinality(TakesOf(takes, o)) <= max_executors_per_order
    /\ \A p \in Procs :
         (FinishedTake(p) /\ out[p].code = 409) =>
            /\ Cardinality(TakesOf(takes, req[p].order)) = max_executors_per_order
            /\ req[p].user \notin TakersOf(takes, req[p].order)
            /\ TakeTxnsOf(req[p].user, req[p].order) = {}

C1_Witness ==
    \E p \in Procs :
        /\ FinishedTake(p) /\ out[p].code = 409
        /\ Cardinality(TakesOf(takes, req[p].order)) = max_executors_per_order

TxnsOfType(u, type) == {i \in 1..Len(txns) : txns[i].type = type /\ txns[i].user_id = u}

\* C2: an executor funded with exactly the cost of one take (one recharge of
\* order_take_cost, nothing else credited) never holds two takes and is never
\* debited twice; of two finished take calls of that executor on two different
\* orders exactly one succeeded and the other got 402, and the balance is 0
C2_NoDoubleSpend ==
    \A e \in Executors :
        Cardinality(TxnsOfType(e, RECHARGE)) = 1 =>
            /\ Cardinality({t \in takes : t.executor_id = e}) <= 1
            /\ Cardinality(TxnsOfType(e, ORDER_TAKE)) <= 1
            /\ \A p, q \in Procs :
                 (/\ p # q /\ FinishedTake(p) /\ FinishedTake(q)
                  /\ req[p].user = e /\ req[q].user = e
                  /\ req[p].order # req[q].order)
                 => /\ {out[p].code, out[q].code} = {200, 402}
                    /\ users[e].balance = 0

\* C3: in every committed state each account's balance is the sum of the amounts
\* of its BalanceTransaction rows
C3_BalanceIsLedgerSum == \A u \in Users : users[u].balance = SumSeq(txns, u)

\* the account debited by a step that inserts an order_take transaction
DebitedBy(u) ==
    \E i \in (Len(txns) + 1)..Len(txns') :
        txns'[i].type = ORDER_TAKE /\ txns'[i].user_id = u

\* C4: no balance is ever negative, and a step debits an account for a take only
\* when the account's committed row, which the step holds locked, has
\* balance >= order_take_cost
C4_DebitOnlyWhenFunded ==
    /\ [](\A u \in Users : users[u].balance >= 0)
    /\ [][\A u \in Users : DebitedBy(u) =>
            /\ lock[<<"user", u>>] # Free
            /\ users[u].balance >= order_take_cost]_vars

\* C5: once an order's status is EXPIRED, DELETED, CLOSED_NO_RESPONSE or COMPLETED
\* no step changes it
C5_TerminalIsFinal ==
    [][\A o \in Orders :
          (orders[o] # NoRow /\ orders[o].status \in Terminal)
              => orders'[o].status = orders[o].status]_vars

FinishedOk(p, kind, code) ==
    req[p].kind = kind /\ pc[p] = "idle" /\ out[p] # NoOut /\ out[p].code = code

SweepCommits == pc[Sweeper] = "commit" /\ pc'[Sweeper] = "idle"

\* C6: a sweep pass that commits a transition of an order finds the order as it
\* read it (still ACTIVE, same takes, same response time), so a pass never expires,
\* closes or refunds an order that an API call changed after the pass read it
C6_SweepRaceSerializes ==
    [][SweepCommits =>
          \A o \in Orders :
              sess[Sweeper].ocols[o] # {} =>
                  /\ orders[o].status = ACTIVE
                  /\ TakesOf(takes, o) = TakesOf(sess[Sweeper].tk, o)
                  /\ orders[o].customer_responded_at
                        = sess[Sweeper].ord[o].customer_responded_at]_vars

\* C7: no two ACTIVE orders have the same contact
C7_UniqueActiveContact ==
    \A o1, o2 \in ActiveOrders : orders[o1].contact = orders[o2].contact => o1 = o2

CreateReturns(p) ==
    req[p].kind = "create" /\ pc[p] \in {"create", "create_commit"} /\ pc'[p] = "idle"

\* C8: a create call that returns while an ACTIVE order with its contact exists
\* returns 409 and changes nothing in the store; otherwise (no such order, or only
\* terminal ones) it returns 201 with a new ACTIVE order that has no takes, and the
\* client's active counter grows by 1
C8_CreateConflict ==
    [][\A p \in Procs : CreateReturns(p) =>
          IF ActiveWithContact(req[p].arg) # {}
          THEN out'[p].code = 409 /\ UNCHANGED db
          ELSE /\ out'[p].code = 201
               /\ orders[out'[p].order] = NoRow
               /\ orders'[out'[p].order] = NewOrder(req[p].user, req[p].arg, now)
               /\ TakesOf(takes', out'[p].order) = {}
               /\ users'[req[p].user].active = users[req[p].user].active + 1]_vars

\* a take call returns for an executor who holds a take on the ACTIVE, unexpired order
RetakeReturns(p) ==
    /\ pc[p] = "take_lock_order" /\ pc'[p] = "idle"
    /\ orders[req[p].order] # NoRow
    /\ orders[req[p].order].status = ACTIVE
    /\ ~is_expired(orders[req[p].order], now)
    /\ req[p].user \in TakersOf(takes, req[p].order)

\* C9: a take by an executor who already holds a take on the ACTIVE, unexpired
\* order returns 200 with the order's contact, the current number of takes and the
\* executor's current balance and changes nothing in the store (also with all slots
\* taken or a balance below the cost); no (order, executor) pair is charged twice
C9_IdempotentRetake ==
    /\ [](\A e \in Users, o \in Orders : Cardinality(TakeTxnsOf(e, o)) <= 1)
    /\ [][\A p \in Procs : RetakeReturns(p) =>
            /\ out'[p].code = 200
            /\ out'[p].contact = orders[req[p].order].contact
            /\ out'[p].executor_count = Cardinality(TakesOf(takes, req[p].order))
            /\ out'[p].new_balance = users[req[p].user].balance
            /\ UNCHANGED db]_vars

InvoiceTxns(i) == {k \in 1..Len(txns) : txns[k].type = RECHARGE /\ txns[k].ext = i}

WebhookReturns(p) ==
    req[p].kind = "webhook" /\ pc[p] \in {"webhook", "webhook_credit"} /\ pc'[p] = "idle"

\* C10: however often and however concurrently the invoice_paid webhook of an
\* invoice is delivered, the invoice has at most one recharge transaction, exactly
\* one once it is PAID; the delivery that finds it PENDING adds the invoice amount
\* to the owner's balance, inserts that transaction and marks the invoice PAID, and
\* every other delivery changes nothing in the store; all of them return ok
C10_WebhookIdempotent ==
    /\ [](\A i \in Invoices :
            /\ Cardinality(InvoiceTxns(i)) <= 1
            /\ (Cardinality(InvoiceTxns(i)) = 1)
                 <=> (invoices[i] # NoRow /\ invoices[i].status = PAID))
    /\ [][\A p \in Procs : WebhookReturns(p) =>
            LET i == req[p].arg
            IN /\ out'[p].code = 200 /\ out'[p].ok
               /\ IF invoices[i] # NoRow /\ invoices[i].status = PENDING
                  THEN LET u == invoices[i].user_id
                           a == invoices[i].amount
                       IN /\ users' = [users EXCEPT ![u].balance = @ + a]
                          /\ txns' = Append(txns, RechargeTxn(u, a, users[u].balance + a, i))
                          /\ invoices'[i].status = PAID
                          /\ invoices'[i].amount = a
                          /\ UNCHANGED <<orders, takes>>
                  ELSE UNCHANGED db]_vars

C10_Witness ==
    \E p \in Procs :
        /\ FinishedOk(p, "webhook", 200) /\ out[p].log = "already paid"
        /\ invoices[req[p].arg].status = PAID
        /\ Cardinality(InvoiceTxns(req[p].arg)) = 1

\* the sweep pass commits the no-response close of order o
SweepCloses(o) ==
    /\ SweepCommits
    /\ orders[o] # NoRow
    /\ orders[o].status = ACTIVE
    /\ orders'[o].status = CLOSED_NO_RESPONSE

RefundedBy(e, o) ==
    \E i \in (Len(txns) + 1)..Len(txns') :
        txns'[i].type = REFUND /\ txns'[i].user_id = e /\ txns'[i].order_id = o

\* C11: the commit of a sweep pass that closes an ACTIVE order for no response
\* decrements the client's active counter and, for every executor who holds a take
\* on the order when the close is committed, decrements the active counter, adds
\* order_take_cost to the balance and inserts one refund transaction of the order
C11_NoResponseRefundsAll ==
    [][\A o \in Orders : SweepCloses(o) =>
          /\ users'[orders[o].client_id].active
                = Max(0, users[orders[o].client_id].active - 1)
          /\ \A e \in TakersOf(takes, o) :
                /\ RefundedBy(e, o)
                /\ users'[e].balance = users[e].balance + order_take_cost
                /\ users'[e].active = Max(0, users[e].active - 1)]_vars

\* the sweep pass commits the expiry of order o, which has no takes
SweepExpires(o) ==
    /\ SweepCommits
    /\ orders[o] # NoRow
    /\ orders[o].status = ACTIVE
    /\ is_expired(orders[o], now)
    /\ TakesOf(takes, o) = {}
    /\ orders'[o].status = EXPIRED

\* the orders of client c whose status the step changes
Transitioned(c) ==
    {o \in Orders : orders[o] # NoRow /\ orders[o].client_id = c
                    /\ orders'[o].status # orders[o].status}

\* C12: the commit of a sweep pass that expires an ACTIVE, overdue order without
\* takes lowers the client's active counter by exactly 1 for each of the client's
\* orders the pass transitions, leaves the client's balance unchanged and inserts
\* no BalanceTransaction for the order
C12_SweepExpiresUntaken ==
    [][\A o \in Orders : SweepExpires(o) =>
          LET c == orders[o].client_id
          IN /\ users'[c].active = users[c].active - Cardinality(Transitioned(c))
             /\ users'[c].balance = users[c].balance
             /\ \A i \in (Len(txns) + 1)..Len(txns') : txns'[i].order_id # o]_vars

\* order o is ACTIVE in the store and its deadline has passed
Overdue(o) ==
    /\ orders[o] # NoRow
    /\ orders[o].status = ACTIVE
    /\ now >= orders[o].created_at + order_lifetime_minutes

\* C13: a take that reads an ACTIVE order past its deadline returns nothing yet and
\* changes nothing but goes on to the expiry; the commit of a take is that expiry:
\* it sets the still ACTIVE, overdue order to EXPIRED and lowers the client's
\* active counter in the same step, changes no balance, take or transaction, and
\* the call ends with 410, whoever the caller is
C13_LazyExpiryOnTake ==
    [][\A p \in Procs : req[p].kind = "take" =>
          LET o == req[p].order
          IN /\ (pc[p] = "take_lock_order" /\ pc'[p] # "take_lock_order" /\ Overdue(o))
                   => pc'[p] = "loop" /\ UNCHANGED db
             /\ (pc[p] = "commit" /\ pc'[p] = "idle")
                   => /\ Overdue(o)
                      /\ out'[p] = [code |-> 410]
                      /\ orders' = [orders EXCEPT ![o].status = EXPIRED]
                      /\ users' = [users EXCEPT
                                     ![orders[o].client_id].active = Max(0, @ - 1)]
                      /\ UNCHANGED <<takes, txns, invoices>>]_vars

C13_Witness ==
    \E p \in Procs :
        /\ FinishedTake(p) /\ out[p].code = 410
        /\ orders[req[p].order].status = EXPIRED
        /\ orders[req[p].order].client_id = req[p].user
        /\ out[Sweeper] = NoOut
        /\ users[req[p].user].active = 1

TakeReturns(p) == req[p].kind = "take" /\ pc[p] # "idle" /\ pc'[p] = "idle"

\* C14: a take that returns 404, 403, 409, 402, or 410 for an order that is not
\* ACTIVE, changes nothing in the store; the step that inserts an ExecutorTake also
\* inserts its order_take transaction and writes the debited balance and the
\* counter, so in every state an executor holds a take on an order exactly if the
\* ledger has one order_take transaction of that executor for that order
C14_TakeAllOrNothing ==
    /\ [](\A e \in Users, o \in Orders :
            (e \in TakersOf(takes, o)) <=> (Cardinality(TakeTxnsOf(e, o)) = 1))
    /\ [][\A p \in Procs :
            /\ (TakeReturns(p) /\ out'[p].code \in {404, 403, 409, 402}) => UNCHANGED db
            /\ (TakeReturns(p) /\ out'[p].code = 410 /\ pc[p] # "commit") =>
                  /\ orders[req[p].order].status # ACTIVE
                  /\ UNCHANGED db
            /\ (TakeReturns(p) /\ out'[p].code = 200) => UNCHANGED db
            /\ (req[p].kind = "take" /\ takes' # takes /\ pc[p] = "take_lock_order"
                /\ pc'[p] # pc[p]) =>
                  LET e == req[p].user
                      o == req[p].order
                      t == txns'[Len(txns')]
                  IN /\ takes' = takes \cup {[order_id |-> o, executor_id |-> e,
                                               taken_at |-> now]}
                     /\ Len(txns') = Len(txns) + 1
                     /\ t.type = ORDER_TAKE /\ t.user_id = e /\ t.order_id = o
                     /\ t.amount = -order_take_cost
                     /\ users'[e].balance = t.balance_after
                     /\ users'[e].active >= 1
                     /\ UNCHANGED <<orders, invoices>>]_vars

C14_Witness ==
    \E p, q \in Procs :
        /\ FinishedTake(p) /\ out[p].code = 402
        /\ FinishedTake(q) /\ out[q].code = 200 /\ out[q].charged

Returns(p, kind) == req[p].kind = kind /\ pc[p] # "idle" /\ pc'[p] = "idle"

Entitled(v, o) ==
    v # Anonymous /\ (orders[o].client_id = v \/ v \in TakersOf(takes', o))

WithContact(o, c) == [orders[o] EXCEPT !.contact = c]

\* C15: a get response carries the contact only for the order's client or a holder
\* of a take on it, and for anybody else (the anonymous caller included) it is the
\* same whatever the contact of the order is; a list response carries no contact;
\* a take returns the contact only to a caller who then holds a take on the order.
C15_ContactDisclosure ==
    [][\A p \in Procs :
         /\ (Returns(p, "get") /\ out'[p].code = 200) =>
              LET o == req[p].order
                  v == req[p].user
              IN /\ out'[p].body.contact # Hidden => Entitled(v, o)
                 /\ ~Entitled(v, o) =>
                      \A c \in Contacts :
                          out'[p].body = GetResponse(o, WithContact(o, c), takes, v)
         /\ Returns(p, "get") /\ out'[p].code # 200 => DOMAIN out'[p] = {"code"}
         /\ Returns(p, "list") => \A r \in out'[p].orders : r.contact = Hidden
         /\ Returns(p, "take") =>
              IF out'[p].code = 200 THEN Entitled(req[p].user, req[p].order)
              ELSE "contact" \notin DOMAIN out'[p]]_vars

C15_Witness ==
    \E p \in Procs :
        /\ FinishedOk(p, "get", 200)
        /\ req[p].user \notin {Anonymous, orders[req[p].order].client_id}
        /\ TakesOf(takes, req[p].order) # {}
        /\ req[p].user \notin TakersOf(takes, req[p].order)
        /\ out[p].body.contact = Hidden

\* C16: a list without the owner filter filters on the requested status when it is
\* ACTIVE, EXPIRED or COMPLETED and on ACTIVE otherwise, so it never returns a
\* CLOSED_NO_RESPONSE or DELETED order, and every order it returns has that status
\* and the category and city asked for.
C16_ListFilter ==
    [][\A p \in Procs :
         (Returns(p, "list") /\ client_id_of(req[p].user, req[p].arg) = NoFilter) =>
            LET f == req[p].arg
                effective == IF f.status \in {ACTIVE, EXPIRED, COMPLETED}
                             THEN f.status ELSE ACTIVE
            IN \A r \in out'[p].orders :
                  /\ r.status \notin {CLOSED_NO_RESPONSE, DELETED}
                  /\ r.status = effective
                  /\ f.category # NoFilter => r.category = f.category
                  /\ f.city # NoFilter => r.city = f.city
                  /\ orders[r.id].status = r.status
                  /\ orders[r.id].category = r.category
                  /\ orders[r.id].city = r.city]_vars

C16_Witness ==
    \E p \in Procs :
        /\ FinishedOk(p, "list", 200)
        /\ ~req[p].arg.mine
        /\ req[p].arg.status = DELETED
        /\ req[p].arg.category # NoFilter
        /\ \E o \in Orders : orders[o].status = DELETED
                             /\ orders[o].category = req[p].arg.category
        /\ \E o \in Orders : orders[o].status = ACTIVE
                             /\ orders[o].category = req[p].arg.category
        /\ out[p].total = 1

SweepEnds == pc[Sweeper] # "idle" /\ pc'[Sweeper] = "idle"

RECURSIVE OrdersOf(_)
OrdersOf(prog) == IF prog = <<>> THEN {} ELSE {Head(prog).order} \cup OrdersOf(Tail(prog))

\* the orders the running pass found due: those it has staged and those still to do
DueInPass ==
    {o \in Orders : sess[Sweeper].ocols[o] # {}} \cup OrdersOf(sess[Sweeper].prog)

\* the order whose statement raised
FailedOn == IF pc[Sweeper] = "loop" THEN {Head(sess[Sweeper].prog).order} ELSE {}

\* C17: when a statement of a sweep pass fails on one order, every other order the
\* pass found due is still expired or closed by that pass.
C17_FailureIsolated ==
    [][(SweepEnds /\ out'[Sweeper].code = 500) =>
          \A o \in DueInPass \ FailedOn : orders'[o].status # ACTIVE]_vars

Gone(st) == {o \in Orders : orders[o] # NoRow /\ orders[o].status = ACTIVE
                            /\ orders'[o].status = st}

Count(S) == Cardinality(S)

\* C18: a step of the sweeper changes the committed store either not at all or, for
\* every order whose status it changes, together with the decrement of the client's
\* and of every taker's counter and, for a no-response close, every taker's refund
\* and its transaction; a failed or cancelled pass changes nothing.
C18_SweepAllOrNothing ==
    [][pc[Sweeper] # "idle" =>
         LET closed == Gone(CLOSED_NO_RESPONSE)
             expired == Gone(EXPIRED)
             gone == closed \cup expired
             refunds == {<<u, o>> \in Users \X closed : u \in TakersOf(takes, o)}
             added == SubSeq(txns', Len(txns) + 1, Len(txns'))
         IN
         /\ takes' = takes
         /\ \A o \in Orders : orders'[o] # orders[o] => o \in gone
         /\ \A u \in Users :
              /\ users'[u].active = users[u].active
                    - Count({o \in gone : orders[o].client_id = u})
                    - Count({o \in gone : u \in TakersOf(takes, o)})
              /\ users'[u].balance = users[u].balance
                    + order_take_cost * Count({o \in closed : u \in TakersOf(takes, o)})
              /\ users'[u].completed = users[u].completed
         /\ Len(txns') >= Len(txns) /\ SubSeq(txns', 1, Len(txns)) = txns
         /\ Len(added) = Count(refunds)
         /\ \A r \in refunds :
              \E i \in 1..Len(added) :
                  /\ added[i].type = REFUND /\ added[i].user_id = r[1]
                  /\ added[i].order_id = r[2] /\ added[i].amount = order_take_cost
         /\ (~SweepCommits) => gone = {}]_vars

\* a pass closed order 1 with its refund, and a later pass failed and left the
\* overdue order 2 as it was
C18_Witness ==
    /\ pc[Sweeper] = "idle" /\ out[Sweeper] # NoOut /\ out[Sweeper].code = 500
    /\ orders[1].status = CLOSED_NO_RESPONSE
    /\ \E i \in 1..Len(txns) : txns[i].type = REFUND /\ txns[i].order_id = 1
    /\ orders[2].status = ACTIVE /\ is_expired(orders[2], now)

\* C19: a close leaves the store unchanged until it returns; it returns 403 to a
\* caller who does not own the order, 410 when the order is not ACTIVE and 409 when
\* it has no take, each without changing the store; otherwise its commit sets the
\* ACTIVE order to CLOSED_NO_RESPONSE, lowers the active counter of the client and
\* of every taker by one (not below zero) and changes no balance, take or
\* transaction.
C19_CloseByClient ==
    [][\A p \in Procs : (req[p].kind = "close" /\ pc[p] \notin {"idle", "auth"}) =>
          LET o == req[p].order
              u == req[p].user
              T == TakersOf(takes, o)
              ok == /\ orders[o] # NoRow /\ orders[o].client_id = u
                    /\ orders[o].status = ACTIVE /\ T # {}
          IN /\ pc'[p] # "idle" => UNCHANGED db
             /\ pc'[p] = "idle" =>
                  /\ out'[p].code = (IF orders[o] = NoRow THEN 404
                                     ELSE IF orders[o].client_id # u THEN 403
                                     ELSE IF orders[o].status # ACTIVE THEN 410
                                     ELSE IF T = {} THEN 409 ELSE 204)
                  /\ ~ok => UNCHANGED db
                  /\ ok =>
                       /\ orders' = [orders EXCEPT ![o].status = CLOSED_NO_RESPONSE]
                       /\ users' = [x \in Users |->
                                      IF x = u \/ x \in T
                                      THEN [users[x] EXCEPT !.active = Max(0, @ - 1)]
                                      ELSE users[x]]
                       /\ UNCHANGED <<takes, txns, invoices>>]_vars

C19_Witness ==
    \E p \in Procs :
        /\ FinishedOk(p, "close", 204)
        /\ orders[req[p].order].status = CLOSED_NO_RESPONSE
        /\ TakersOf(takes, req[p].order) # {}
        /\ users[req[p].user].active < 2
        /\ \A e \in TakersOf(takes, req[p].order) : users[e].active = 0

\* C20: a step of a respond changes nothing until it commits, answers 404, 403, 410 or 409
\* without changing the store, and commits only the response time of an ACTIVE,
\* taken order of the caller whose response time is unset; a response time that is
\* set is never changed or cleared by any step.
C20_RespondOnce ==
    [][/\ \A o \in Orders :
             (orders[o] # NoRow /\ orders[o].customer_responded_at # NoTime) =>
                 orders'[o].customer_responded_at = orders[o].customer_responded_at
       /\ \A p \in Procs : (req[p].kind = "respond" /\ pc[p] \notin {"idle", "auth"}
                            /\ pc'[p] # pc[p]) =>
             LET o == req[p].order
             IN /\ pc'[p] # "idle" => UNCHANGED db
                /\ (pc'[p] = "idle" /\ out'[p].code # 200) =>
                      /\ out'[p].code \in {404, 403, 410, 409}
                      /\ UNCHANGED db
                /\ (pc'[p] = "idle" /\ out'[p].code = 200) =>
                      /\ orders[o].client_id = req[p].user
                      /\ orders[o].status = ACTIVE
                      /\ TakesOf(takes, o) # {}
                      /\ orders[o].customer_responded_at = NoTime
                      /\ orders'[o].customer_responded_at # NoTime
                      /\ orders' = [orders EXCEPT ![o].customer_responded_at =
                                                      orders'[o].customer_responded_at]
                      /\ UNCHANGED <<users, takes, txns, invoices>>]_vars

\* C21: once an order has a committed take no step changes its contact; a step of
\* an update changes nothing until it commits, answers 404 for an absent or foreign
\* order, 403 for a taken order and 410 for an order past its deadline, each
\* without changing the store, and commits only on an order without takes.
C21_FrozenAfterTake ==
    [][/\ \A o \in Orders :
             (orders[o] # NoRow /\ TakesOf(takes, o) # {}) =>
                 orders'[o].contact = orders[o].contact
       /\ \A p \in Procs : (req[p].kind = "update" /\ pc[p] \notin {"idle", "auth"}
                            /\ pc'[p] # pc[p]) =>
             LET o == req[p].order
             IN /\ pc'[p] # "idle" => UNCHANGED db
                /\ (pc'[p] = "idle" /\ out'[p].code # 200) =>
                      /\ out'[p].code \in {404, 403, 410}
                      /\ UNCHANGED db
                /\ (pc'[p] = "idle" /\ out'[p].code = 200) =>
                      TakesOf(takes, o) = {}]_vars

\* C22: a delete answers 404 for an absent or foreign order, 403 for a taken order
\* and 410 for an order past its deadline, each without changing the store;
\* otherwise its commit sets the order to DELETED and lowers the client's active
\* counter by exactly 1, and no order is deleted (and counted) twice.
C22_DeleteGuarded ==
    [][\A p \in Procs : (req[p].kind = "delete" /\ pc'[p] # pc[p]) =>
          LET o == req[p].order
              u == req[p].user
              expected == IF orders[o] = NoRow \/ orders[o].client_id # u THEN 404
                          ELSE IF TakesOf(takes, o) # {} THEN 403
                          ELSE IF is_expired(orders[o], now) THEN 410 ELSE 204
          IN /\ pc[p] = "delete" =>
                  /\ UNCHANGED db
                  /\ IF expected = 204 THEN pc'[p] = "commit"
                     ELSE pc'[p] = "idle" /\ out'[p].code = expected
             /\ pc[p] = "commit" =>
                  /\ orders[o].status # DELETED
                  /\ orders' = [orders EXCEPT ![o].status = DELETED]
                  /\ users' = [users EXCEPT ![u].active = @ - 1]
                  /\ UNCHANGED <<takes, txns, invoices>>]_vars

\* C23: a paid-invoice webhook for an invoice id without a PaymentInvoice row, and
\* one for an invoice that is already paid, changes nothing in the store and is
\* answered with ok = true.
C23_UnknownInvoiceIgnored ==
    [][\A p \in Procs :
          (req[p].kind = "webhook" /\ pc[p] = "webhook" /\ pc'[p] # pc[p]
           /\ (invoices[req[p].arg] = NoRow \/ invoices[req[p].arg].status = PAID)) =>
              /\ UNCHANGED db
              /\ pc'[p] = "idle"
              /\ out'[p].code = 200 /\ out'[p].ok]_vars

C23_Witness ==
    \E p \in Procs :
        /\ FinishedOk(p, "webhook", 200)
        /\ out[p].log = "invoice not found"
        /\ invoices[req[p].arg] = NoRow

C25_NoLockCycle == \A s \in Sessions : ~InCycle(s)

NotifySteps == {"notify_select", "notify_send", "notify_commit"}

\* C26: a step of the notification task, whatever the store and the channel answer,
\* leaves the 201 answer of the create and the committed order as they are, ends
\* the task only with a log line, and leaves the loop only when a send to every
\* eligible executor was attempted.
C26_NotifyFailuresSwallowed ==
    [][\A p \in Procs : (pc[p] \in NotifySteps /\ pc'[p] # pc[p]) =>
          /\ pc'[p] \in NotifySteps \cup {"idle"}
          /\ out'[p].code = 201 /\ out'[p].order = out[p].order
          /\ orders'[out[p].order] = orders[out[p].order]
          /\ UNCHANGED <<orders, takes, txns, invoices>>
          /\ pc'[p] = "idle" =>
                out'[p].notify.log \in {"Failed to send notifications", "Notified",
                                        "No subscribed executors",
                                        "All executors are in cooldown"}
          /\ (pc[p] = "notify_send" /\ pc'[p] # "notify_send") =>
                /\ pc'[p] = "notify_commit"
                /\ out'[p].notify.attempted = out'[p].notify.eligible]_vars

\* a task ended after the send to executor 2 failed and the send to 3 succeeded
C26_Witness ==
    \E p \in Procs :
        /\ pc[p] = "idle" /\ "notify" \in DOMAIN out[p]
        /\ out[p].code = 201 /\ orders[out[p].order] # NoRow
        /\ out[p].notify.eligible = {2, 3}
        /\ out[p].notify.attempted = {2, 3}
        /\ out[p].notify.delivered = {3}
        /\ users[3].last_notified_at = out[p].notify.now

\* C27: the step of a take that inserts the ExecutorTake (o, e) lowers e's balance
\* by exactly order_take_cost, raises e's active counter by 1, appends exactly one
\* order_take transaction (amount -cost, balance_after e's new balance, order o),
\* leaves o ACTIVE and every other row as it was; the take then returns o's
\* contact, the number of takes of o and e's balance.
C27_FirstTakeEffects ==
    [][\A p \in Procs : (req[p].kind = "take" /\ pc'[p] # pc[p]) =>
          LET e == req[p].user
              o == req[p].order
          IN /\ (pc[p] = "take_lock_order" /\ pc'[p] = "take_refresh") =>
                  /\ e \notin TakersOf(takes, o)
                  /\ orders[o].status = ACTIVE
                  /\ users' = [users EXCEPT ![e].balance = @ - order_take_cost,
                                            ![e].active = @ + 1]
                  /\ users'[e].balance >= 0
                  /\ takes' = takes \cup {[order_id |-> o, executor_id |-> e,
                                           taken_at |-> now]}
                  /\ txns' = Append(txns, [user_id |-> e, type |-> ORDER_TAKE,
                                           amount |-> -order_take_cost,
                                           balance_after |-> users'[e].balance,
                                           order_id |-> o, ext |-> 0])
                  /\ UNCHANGED <<orders, invoices>>
             /\ (pc[p] = "take_refresh" /\ pc'[p] = "idle") =>
                  /\ out'[p].code = 200
                  /\ out'[p].contact = orders[o].contact
                  /\ out'[p].executor_count = Cardinality(TakesOf(takes, o))
                  /\ out'[p].new_balance = users[e].balance
                  /\ e \in TakersOf(takes, o)
                  /\ UNCHANGED db]_vars

\* executor 3 took order 1 after executor 2 and spent its whole balance
C27_Witness ==
    \E p \in Procs :
        /\ FinishedTake(p) /\ out[p].code = 200 /\ out[p].charged
        /\ out[p].executor_count = 2 /\ out[p].new_balance = 0
        /\ users[req[p].user].balance = 0 /\ users[req[p].user].active = 1
        /\ orders[req[p].order].status = ACTIVE

\* C28: no ExecutorTake has the order's client as its executor, and the step of a
\* take by the client on the client's own ACTIVE order before its deadline answers
\* 403 and changes nothing.
C28_NoSelfTake ==
    /\ [](\A t \in takes : orders[t.order_id].client_id # t.executor_id)
    /\ [][\A p \in Procs :
            (/\ req[p].kind = "take" /\ pc[p] = "take_lock_order" /\ pc'[p] # pc[p]
             /\ orders[req[p].order] # NoRow
             /\ orders[req[p].order].client_id = req[p].user
             /\ orders[req[p].order].status = ACTIVE
             /\ ~is_expired(orders[req[p].order], now)) =>
                /\ pc'[p] = "idle"
                /\ out'[p] = [code |-> 403]
                /\ UNCHANGED db]_vars

C28_Witness ==
    \E p \in Procs :
        /\ FinishedTake(p) /\ out[p].code = 403
        /\ orders[req[p].order].client_id = req[p].user
        /\ orders[req[p].order].status = ACTIVE
        /\ users[req[p].user].balance = order_take_cost
        /\ TakeTxnsOf(req[p].user, req[p].order) = {}

\* C29: once a respond has committed on an order (its customer_responded_at is
\* set), no commit of a sweep pass moves the order to CLOSED_NO_RESPONSE, no step
\* adds a refund for it, and it leaves ACTIVE only to EXPIRED, to the status the
\* client's close gives it (CLOSED_NO_RESPONSE, without a refund) or to COMPLETED;
\* this holds also when the respond commits while a sweep pass that already read
\* the order is in progress
C29_RespondedNeverAutoClosed ==
    [][\A o \in Orders :
          (/\ orders[o] # NoRow
           /\ orders[o].status = ACTIVE
           /\ orders[o].customer_responded_at # NoTime) =>
              /\ orders'[o].status # DELETED
              /\ SweepCommits => orders'[o].status # CLOSED_NO_RESPONSE
              /\ \A i \in (Len(txns) + 1)..Len(txns') :
                    ~(txns'[i].type = REFUND /\ txns'[i].order_id = o)]_vars

RECURSIVE ItemsFor(_, _)
ItemsFor(prog, o) ==
    IF prog = <<>> THEN <<>>
    ELSE (IF Head(prog).order = o THEN <<Head(prog)>> ELSE <<>>) \o ItemsFor(Tail(prog), o)

SweepStarts == pc[Sweeper] = "idle" /\ pc'[Sweeper] = "loop"

\* the orders the committing pass expires
ExpiredInPass ==
    {o \in Orders : /\ sess[Sweeper].ord[o] # NoRow
                    /\ "status" \in sess[Sweeper].ocols[o]
                    /\ sess[Sweeper].ord[o].status = EXPIRED}

\* C30: a sweep pass that reads an ACTIVE order at or after created_at + lifetime
\* takes the expiry branch for it, also when the order has takes, no response and
\* an elapsed no-response window: it stages EXPIRED, one decrement for the client
\* and one for every taker, and no refund; a pass that commits sets the order
\* to EXPIRED, lowers the active counter of the client and of every taker (not below
\* zero), appends no transaction for the order and changes no balance because of it
C30_ExpiryFirst ==
    /\ [][SweepStarts =>
            \A o \in ActiveOrders :
                now >= orders[o].created_at + order_lifetime_minutes =>
                    ItemsFor(sess'[Sweeper].prog, o)
                        = <<[user |-> orders[o].client_id, order |-> o, eff |-> "dec",
                             status |-> EXPIRED]>>
                          \o ExecutorItems(takes, o, "dec")]_vars
    /\ [][(SweepCommits /\ out'[Sweeper].code = 1) =>
            LET added == SubSeq(txns', Len(txns) + 1, Len(txns'))
                due == {o \in Orders : sess[Sweeper].ocols[o] # {}}
            IN \A o \in ExpiredInPass :
                /\ orders[o].status = ACTIVE /\ orders'[o].status = EXPIRED
                /\ \A u \in {orders[o].client_id} \cup TakersOf(takes, o) :
                      /\ users'[u].active = Max(0, users[u].active
                              - Count({x \in due : orders[x].client_id = u})
                              - Count({x \in due : u \in TakersOf(takes, x)}))
                      /\ users'[u].balance = users[u].balance
                              + order_take_cost
                                * Count({i \in 1..Len(added) : added[i].user_id = u})
                /\ \A i \in 1..Len(added) : added[i].order_id # o]_vars

\* a pass expired order 1, which executor 2 had taken at minute 0 without a
\* response: the executor's counter is down, its balance still spent, no refund
C30_Witness ==
    /\ pc[Sweeper] = "idle" /\ out[Sweeper] # NoOut /\ out[Sweeper].code = 1
    /\ orders[1].status = EXPIRED /\ orders[1].customer_responded_at = NoTime
    /\ [order_id |-> 1, executor_id |-> 2, taken_at |-> 0] \in takes
    /\ users[2].active = 0 /\ users[2].balance = 0
    /\ users[orders[1].client_id].active = 0
    /\ ~\E i \in 1..Len(txns) : txns[i].type = REFUND

\* the orders a user is party to: as the client or as a taker
PartyTo(u) ==
    {o \in Orders : orders[o] # NoRow
                    /\ (orders[o].client_id = u \/ u \in TakersOf(takes, o))}

\* C31: the counter changes of complete are applied at most once per order, over
\* any interleaving of calls (two concurrent completes, complete racing with
\* close): no user's completed counter exceeds the number of COMPLETED orders the
\* user is the client or a taker of
C31_CompleteOnce ==
    \A u \in Users :
        users[u].completed
            <= Count({o \in PartyTo(u) : orders[o].status = COMPLETED})

\* C32: in every committed state an invoice is paid iff its balance_transaction_id
\* and paid_at are set; the linked transaction is then a recharge of the invoice
\* amount on the owner's account whose external reference is the invoice id; an
\* invoice id has at most one such transaction and none while the invoice is pending
C32_PaidInvoiceLinked ==
    \A i \in Invoices : invoices[i] # NoRow =>
        LET inv == invoices[i]
        IN /\ inv.status = PAID =>
                /\ inv.balance_transaction_id \in 1..Len(txns) /\ inv.paid_at # NoTime
                /\ txns[inv.balance_transaction_id].type = RECHARGE
                /\ txns[inv.balance_transaction_id].user_id = inv.user_id
                /\ txns[inv.balance_transaction_id].amount = inv.amount
                /\ txns[inv.balance_transaction_id].ext = i
           /\ inv.status # PAID =>
                inv.balance_transaction_id = 0 /\ inv.paid_at = NoTime
           /\ Cardinality(InvoiceTxns(i)) <= 1
           /\ inv.status = PENDING => InvoiceTxns(i) = {}

\* the invoice was paid after its owner had recharged directly, and its webhook
\* was delivered once more
C32_Witness ==
    \E i \in Invoices, p \in Procs :
        /\ invoices[i] # NoRow /\ invoices[i].status = PAID
        /\ invoices[i].balance_transaction_id > 1
        /\ FinishedOk(p, "webhook", 200) /\ req[p].arg = i /\ out[p].log = "already paid"

CreateInvoiceReturns(p) ==
    req[p].kind = "create_invoice" /\ pc[p] = "create_invoice" /\ pc'[p] = "idle"

\* C33: create_invoice with amount <= 0 answers 400 without calling the provider;
\* every call that does not answer 200 (400, 503 without a provider token, a
\* failed provider call) persists nothing; a call that answers 200 has a positive
\* amount, called the provider and persists exactly one pending invoice owned by
\* the caller with the requested amount; no call changes a balance or a
\* transaction, and nothing is persisted before the call returns
C33_CreateInvoiceOutcomes ==
    [][\A p \in Procs :
          /\ (req[p].kind = "create_invoice" /\ pc'[p] # pc[p] /\ pc'[p] # "idle")
                => UNCHANGED db
          /\ CreateInvoiceReturns(p) =>
                /\ UNCHANGED <<users, txns, orders, takes>>
                /\ out'[p].code \in {200, 400, 500, 503}
                /\ req[p].arg <= 0 =>
                      out'[p].code = 400 /\ out'[p].provider = "not called"
                /\ out'[p].code = 503 => out'[p].provider = "not called"
                /\ out'[p].code # 200 => invoices' = invoices
                /\ out'[p].code = 200 =>
                      /\ req[p].arg > 0 /\ out'[p].provider = "called"
                      /\ \E i \in Invoices :
                            /\ invoices[i] = NoRow
                            /\ invoices' = [invoices EXCEPT ![i] =
                                  [status |-> PENDING, user_id |-> req[p].user,
                                   amount |-> req[p].arg,
                                   balance_transaction_id |-> 0, paid_at |-> NoTime]]]_vars

\* a call with amount 0 was refused, the provider was never called for it, and
\* the caller, who has recharged, keeps balance and has no invoice
C33_Witness ==
    \E p \in Procs :
        /\ pc[p] = "idle" /\ req[p].kind = "create_invoice" /\ req[p].arg = 0
        /\ out[p] # NoOut /\ out[p].code = 400 /\ out[p].provider = "not called"
        /\ users[req[p].user].balance = MaxAmount
        /\ \A i \in Invoices : invoices[i] = NoRow

\* the committed store has the same ACTIVE orders and the same takes as the
\* running pass read, and no worker is in a handler
PassUndisturbed ==
    /\ \A p \in Procs : pc[p] = "idle"
    /\ \A o \in Orders :
          /\ (orders[o] # NoRow /\ orders[o].status = ACTIVE)
                <=> sess[Sweeper].ord[o] # NoRow
          /\ sess[Sweeper].ord[o] # NoRow =>
                TakesOf(takes, o) = TakesOf(sess[Sweeper].tk, o)

Notified(p) == IF "notify" \in DOMAIN out[p] THEN out[p].notify.delivered ELSE {}

\* C35: no executor receives two new-order notifications less than the cooldown
\* apart, also when the two orders are created concurrently: an executor to whom
\* the tasks of two orders both delivered was served by tasks whose clock
\* readings are at least notification_frequency_minutes apart
C35_CooldownRespected ==
    \A p, q \in Procs :
        p # q =>
            \A u \in Notified(p) \cap Notified(q) :
                \/ out[p].notify.now >= out[q].notify.now + notification_frequency_minutes
                \/ out[q].notify.now >= out[p].notify.now + notification_frequency_minutes

UpdateCommits(p) ==
    req[p].kind = "update" /\ pc[p] = "commit" /\ pc'[p] = "idle" /\ out'[p].code = 200

\* C36: every order has city_locked = true from its creation on and no step
\* changes an order's city or client; the commit of a successful update changes,
\* of the order's fields, only those of category, description and contact that the
\* patch supplies, each to the supplied value, and leaves every other order, the
\* takes, the users (counters and balances), the transactions and the invoices as
\* they were
C36_UpdateFrame ==
    /\ [](\A o \in Orders : orders[o] # NoRow => orders[o].city_locked)
    /\ [][/\ \A o \in Orders :
               orders[o] # NoRow =>
                  /\ orders'[o] # NoRow
                  /\ orders'[o].city = orders[o].city
                  /\ orders'[o].client_id = orders[o].client_id
          /\ \A p \in Procs : UpdateCommits(p) =>
               LET o == req[p].order
                   patch == req[p].arg
               IN /\ \A f \in DOMAIN orders[o] :
                        orders'[o][f] # orders[o][f] =>
                            f \in Supplied(patch) /\ orders'[o][f] = patch[f]
                  /\ \A x \in Orders \ {o} : orders'[x] = orders[x]
                  /\ UNCHANGED <<users, takes, txns, invoices>>]_vars

\* an update that supplied only a new description and category has committed on
\* an order created by a request: the contact it was created with is still there
C36_Witness ==
    \E p \in Procs :
        /\ FinishedOk(p, "update", 200)
        /\ req[p].arg.contact = NotSupplied
        /\ req[p].arg.description = 2 /\ req[p].arg.category = 2
        /\ req[p].order = 2
        /\ orders[2].description = 2 /\ orders[2].category = 2
        /\ orders[2].contact # 0 /\ orders[2].city = 1 /\ orders[2].city_locked

\* C37: in every committed state each user's active counter is the number of
\* ACTIVE orders the user owns plus the number of ACTIVE orders the user holds a
\* take on, and is never negative
C37_ActiveCounterExact ==
    \A u \in Users :
        /\ users[u].active >= 0
        /\ users[u].active
              = Count({o \in ActiveOrders : orders[o].client_id = u})
                + Count({o \in ActiveOrders : u \in TakersOf(takes, o)})

\* C38: for every (order, executor) pair there is a take exactly if the ledger has
\* one order_take transaction of that executor linked to that order, of amount
\* -order_take_cost; a pair never has two takes or two such transactions, and no
\* step removes a take
C38_TakeIffCharge ==
    /\ [](\A e \in Users, o \in Orders :
            /\ Cardinality({t \in takes : t.order_id = o /\ t.executor_id = e}) <= 1
            /\ Cardinality(TakeTxnsOf(e, o)) <= 1
            /\ (e \in TakersOf(takes, o)) <=> (TakeTxnsOf(e, o) # {})
            /\ \A i \in TakeTxnsOf(e, o) : txns[i].amount = -order_take_cost)
    /\ [](\A i \in 1..Len(txns) : txns[i].type = ORDER_TAKE => txns[i].order_id \in Orders)
    /\ [][takes \subseteq takes']_vars

\* executor 3 took order 1 and asked for it again at a later time; it holds one
\* take and was charged once
C38_Witness ==
    \E p \in Procs :
        /\ FinishedTake(p) /\ out[p].code = 200 /\ ~out[p].charged
        /\ req[p].user = 3 /\ req[p].order = 1
        /\ \E t \in takes : t.order_id = 1 /\ t.executor_id = 3 /\ t.taken_at < now
        /\ Cardinality(TakeTxnsOf(3, 1)) = 1
        /\ users[3].balance = 0

RefundsOf(e, o) ==
    {i \in 1..Len(txns) : txns[i].type = REFUND /\ txns[i].user_id = e
                          /\ txns[i].order_id = o}

\* C39: for every (order, executor) pair there is at most one refund transaction;
\* it has the amount of the take cost and exists only if the executor holds a take
\* on the order, paid for it once, and the order is CLOSED_NO_RESPONSE; orders
\* that are ACTIVE, EXPIRED, COMPLETED or DELETED have no refund transaction
C39_RefundOnlyNoResponse ==
    \A e \in Users, o \in Orders :
        /\ Cardinality(RefundsOf(e, o)) <= 1
        /\ \A i \in RefundsOf(e, o) :
              /\ txns[i].amount = order_take_cost
              /\ e \in TakersOf(takes, o)
              /\ Cardinality(TakeTxnsOf(e, o)) = 1
              /\ orders[o].status = CLOSED_NO_RESPONSE

\* C40: no DELETED order has an ExecutorTake, and every COMPLETED or
\* CLOSED_NO_RESPONSE order has at least one, in every state that delete, take,
\* close, complete and the sweeper can reach when their requests overlap
C40_TakesMatchStatus ==
    \A o \in Orders :
        /\ orders[o].status = DELETED => TakesOf(takes, o) = {}
        /\ orders[o].status \in {COMPLETED, CLOSED_NO_RESPONSE} => TakesOf(takes, o) # {}

====
